---- MODULE Spec2Model ----
(***************************************************************************)
(* Model of the chapter-generation pipeline of arboris-novel:              *)
(* backend/app/services/pipeline_orchestrator.py (PipelineOrchestrator).   *)
(*                                                                         *)
(* Python values are represented as follows.                               *)
(*   - A dict key that may be missing, or a value that may be None, is a   *)
(*     string tag: "absent" (key not in the dict), "null" (None), "true",  *)
(*     "false".                                                            *)
(*   - A text (an LLM response, a chapter content) is a record             *)
(*       [think |-> BOOLEAN, fence |-> BOOLEAN, body |-> Body]             *)
(*     think: the text carries reasoning markup (<think>..</think>);       *)
(*     fence: the body is wrapped in a markdown code fence;                *)
(*     body : Plain(s), text that is not JSON (s = "" is the empty text),  *)
(*            or a JSON value JStr(s), JDict(pairs), JList(items), JNum;   *)
(*            JObj(k, v) is the object with the one key k.                 *)
(***************************************************************************)
EXTENDS Integers, Sequences, FiniteSets, TLC

\* ------------------------------------------------------------------ bounds

\* Largest version count a request asks for.
MaxVersions == 2

\* settings.writer_chapter_versions, the last fallback of the version count.
SettingsVersions == 2

\* Largest version count a stored configuration, an environment variable or
\* a request holds when the version count is resolved on its own.
MaxCount == 2

\* Largest number of members of a generated JSON object, and of items of a
\* generated JSON list.
MaxKeys == 2
MaxItems == 2

\* Largest number of non-blank lines in the response of the query LLM call.
MaxLines == 6

\* Largest chapter number of a project.
MaxChapters == 3

\* The most edits of one chapter a behaviour holds.
MaxEdits == 2

\* The most reminder checks of one project a behaviour holds.
MaxChecks == 2

\* queries[:5] of _generate_search_queries.
QueryLimit == 5

\* retrieved[:10] of _filter_knowledge.
FilterLimit == 10

\* top_k of retrieve_and_filter.
TopK == 5

\* ------------------------------------------------------------------ texts

Plain(s) == [t |-> "plain", s |-> s]
JStr(s) == [t |-> "str", s |-> s]
JNum == [t |-> "num"]
JNull == [t |-> "null"]
\* A JSON object: its members [k, v] in document order, the keys distinct.
JDict(pairs) == [t |-> "obj", pairs |-> pairs]
JObj(k, v) == JDict(<<[k |-> k, v |-> v]>>)
JList(items) == [t |-> "list", items |-> items]

Text(think, fence, body) == [think |-> think, fence |-> fence, body |-> body]

\* A text with no markup around a plain body.
Prose(s) == Text(FALSE, FALSE, Plain(s))

EmptyText == Prose("")

\* Python truthiness of a str: "" is the only falsy one.
IsEmpty(text) == text = EmptyText

\* utils/json_utils.remove_think_tags: strips the reasoning markup.
remove_think_tags(text) == [text EXCEPT !.think = FALSE]

\* utils/json_utils.unwrap_markdown_json: unwraps a markdown code fence
\* (once the reasoning markup in front of it is gone).
unwrap_markdown_json(text) == IF text.think THEN text ELSE [text EXCEPT !.fence = FALSE]

\* json.loads succeeds exactly on an unwrapped JSON body.
JsonLoadable(text) == ~text.think /\ ~text.fence /\ text.body.t # "plain"

json_loads(text) == text.body

\* Optional values: None, or a value v.
NoneV == [none |-> TRUE]
Some(v) == [none |-> FALSE, v |-> v]

\* key in value, for a dict value.
HasKey(value, key) == \E i \in 1..Len(value.pairs) : value.pairs[i].k = key

\* value[key], for a dict value that has the key.
Get(value, key) == value.pairs[CHOOSE i \in 1..Len(value.pairs) : value.pairs[i].k = key].v

\* The keys of _extract_text with the priority reversed.
ExtractKeysReversed == <<"story", "body", "text", "chapter_text", "chapter_content", "content">>

ExtractKeys == <<"content", "chapter_content", "chapter_text", "text", "body", "story">>

\* Python truthiness of a JSON value.
Truthy(v) ==
    CASE v.t = "str" -> v.s # ""
      [] v.t = "num" -> TRUE
      [] v.t = "obj" -> v.pairs # <<>>
      [] v.t = "list" -> v.items # <<>>
      [] OTHER -> FALSE

RECURSIVE _extract_text(_)
RECURSIVE ExtractFromItems(_)
RECURSIVE ExtractFromKeys(_, _)

\* The list loop of _extract_text (lines 913-917).
ExtractFromItems(items) ==
    IF items = <<>> THEN NoneV
    ELSE LET nested == _extract_text(Head(items))
         IN IF ~nested.none THEN nested ELSE ExtractFromItems(Tail(items))

\* The key loop of _extract_text (lines 906-912).
ExtractFromKeys(value, keys) ==
    IF keys = <<>> THEN NoneV
    ELSE LET key == Head(keys)
             nested == IF HasKey(value, key) /\ Truthy(Get(value, key))
                       THEN _extract_text(Get(value, key))
                       ELSE NoneV
         IN IF ~nested.none THEN nested ELSE ExtractFromKeys(value, Tail(keys))

\* PipelineOrchestrator._extract_text.
_extract_text(value) ==
    IF ~Truthy(value) THEN NoneV
    ELSE CASE value.t = "str" -> Some(value.s)
           [] value.t = "obj" -> ExtractFromKeys(value, ExtractKeys)
           [] value.t = "list" -> ExtractFromItems(value.items)
           [] OTHER -> NoneV

\* ------------------------------------------------------ config resolution

Absent == "absent"
Null == "null"

IntVal(n) == [k |-> "int", n |-> n]
NoVal == [k |-> "absent"]
BadVal == [k |-> "bad"]

Max(a, b) == IF a >= b THEN a ELSE b
Min(a, b) == IF a <= b THEN a ELSE b

\* The stored/env lookup of _resolve_version_count: the first source, in
\* order, that parses as an integer >= 1; 0 when none does.
RECURSIVE FirstValid(_)
FirstValid(sources) ==
    IF sources = <<>> THEN 0
    ELSE LET v == Head(sources)
         IN IF v.k = "int" /\ v.n >= 1 THEN v.n ELSE FirstValid(Tail(sources))

\* The lookup of _resolve_version_count with the environment consulted before the stored
\* configuration.
VersionCountEnvFirst(requested, sys) ==
    IF requested.k = "int" /\ requested.n # 0
    THEN Max(1, requested.n)
    ELSE LET found == FirstValid(sys.env \o sys.stored)
         IN IF found >= 1 THEN found ELSE sys.settings

\* PipelineOrchestrator._resolve_version_count. sys is the deployment:
\* stored (the two system-config keys, in order), env (the three
\* environment variables, in order), settings (the settings default).
_resolve_version_count(requested, sys) ==
    IF requested.k = "int" /\ requested.n # 0
    THEN Max(1, requested.n)
    ELSE LET found == FirstValid(sys.stored \o sys.env)
         IN IF found >= 1 THEN found ELSE sys.settings

\* _resolve_version_count of api/routers/writer.py: the same lookup without
\* a requested value.
writer_resolve_version_count(sys) ==
    LET found == FirstValid(sys.stored \o sys.env)
    IN IF found >= 1 THEN found ELSE sys.settings

DefaultPipelineConfig(preset) ==
    [preset |-> preset,
     version_count |-> 2,
     enable_preview |-> FALSE,
     enable_optimizer |-> FALSE,
     enable_consistency |-> FALSE,
     enable_enrichment |-> FALSE,
     async_finalize |-> FALSE,
     enable_constitution |-> FALSE,
     enable_persona |-> FALSE,
     enable_six_dimension |-> FALSE,
     enable_reader_sim |-> FALSE,
     enable_self_critique |-> FALSE,
     enable_memory |-> FALSE,
     enable_rag |-> TRUE,
     rag_mode |-> "simple",
     enable_foreshadowing |-> FALSE,
     enable_faction |-> FALSE]

\* The keys _resolve_config copies from flow_config, in the order of its loop.
OverrideKeys ==
    <<"enable_preview", "enable_optimizer", "enable_consistency",
      "enable_enrichment", "async_finalize", "enable_rag">>

\* setattr(config, key, bool(flow_config[key])) when the key is present and
\* not None.
ApplyOverride(config, fc, key) ==
    IF fc[key] \notin {Absent, Null}
    THEN [config EXCEPT ![key] = (fc[key] = "true")]
    ELSE config

RECURSIVE ApplyOverrides(_, _, _)
ApplyOverrides(config, fc, keys) ==
    IF keys = <<>> THEN config
    ELSE ApplyOverrides(ApplyOverride(config, fc, Head(keys)), fc, Tail(keys))

\* The preset defaults of _resolve_config (lines 356-370).
PresetDefaults(config, preset) ==
    LET c1 == IF preset \in {"enhanced", "ultimate"}
              THEN [config EXCEPT !.enable_constitution = TRUE,
                                  !.enable_persona = TRUE,
                                  !.enable_foreshadowing = TRUE,
                                  !.enable_faction = TRUE,
                                  !.rag_mode = "two_stage"]
              ELSE config
        c2 == IF preset = "enhanced" THEN [c1 EXCEPT !.enable_six_dimension = TRUE] ELSE c1
        c3 == IF preset = "ultimate" THEN [c2 EXCEPT !.enable_memory = TRUE] ELSE c2
        c4 == IF preset = "basic" THEN [c3 EXCEPT !.enable_rag = TRUE] ELSE c3
    IN c4

\* A mutant of UltimateExclusions: the exclusions are not applied.
UltimateExclusionsSkipped(config, preset) == config

\* The closing exclusions of preset "ultimate" (lines 386-393).
UltimateExclusions(config, preset) ==
    IF preset = "ultimate"
    THEN [config EXCEPT !.enable_preview = FALSE,
                        !.enable_optimizer = FALSE,
                        !.enable_consistency = FALSE,
                        !.enable_enrichment = FALSE,
                        !.enable_six_dimension = FALSE,
                        !.enable_reader_sim = FALSE,
                        !.enable_self_critique = FALSE]
    ELSE config

\* PipelineOrchestrator._resolve_config. fc is the flow_config dict: every
\* key it may carry, "absent" for a missing one.
_resolve_config(fc, sys) ==
    LET preset == IF fc.preset = Absent THEN "basic" ELSE fc.preset
        c0 == [DefaultPipelineConfig(preset) EXCEPT
                  !.version_count = _resolve_version_count(fc.versions, sys)]
        c1 == PresetDefaults(c0, preset)
        c2 == ApplyOverrides(c1, fc, OverrideKeys)
        c3 == IF fc.rag_mode \notin {Absent, Null, ""}
              THEN [c2 EXCEPT !.rag_mode = fc.rag_mode]
              ELSE c2
    IN UltimateExclusions(c3, preset)

\* ------------------------------------------------------------------ state

VARIABLES
    pc,                 \* position of generate_chapter
    flow_config,        \* the request's flow_config
    sys,                \* stored configuration, environment, settings
    prompts,            \* names of the prompt templates that are configured
    outline_exists,     \* the blueprint has an outline for the chapter
    config,             \* the resolved PipelineConfig
    chapter,            \* the chapter record
    mission,            \* chapter_mission
    enhanced_context,   \* enhanced_context (None when no enhanced flow)
    memory_context,     \* memory_context (None when the memory layer is off)
    rag_context,        \* rag_context of the simple retrieval
    knowledge_context,  \* knowledge_context of the two-stage retrieval
    rag_stats,          \* rag_stats, returned as debug_metadata.retrieval_stats
    idx,                \* loop index of the version loop
    cur,                \* locals of the version being generated
    versions,           \* versions (list of dicts)
    hist,               \* per version: the generated text, the repair outcome, the result
    log,                \* the service calls issued so far, in order
    reviewed,           \* what the comparative review did, and the versions as it left them
    best_version_index,
    best_content,       \* best_content of the post-processing chain
    review_summaries,
    stored,             \* the chapter versions held by the store
    result,             \* the response of generate_chapter
    error               \* the exception generate_chapter raised

vars ==
    <<pc, flow_config, sys, prompts, outline_exists, config, chapter, mission,
      enhanced_context, memory_context, rag_context, knowledge_context, rag_stats,
      idx, cur, versions, hist, log, reviewed,
      best_version_index, best_content, review_summaries, stored, result, error>>

inputs == <<flow_config, sys, prompts, outline_exists>>

\* What generate_chapter gathers for the prompt between the enhanced context
\* and the writing prompt (lines 158-192).
context == <<memory_context, rag_context, knowledge_context, rag_stats>>

\* ----------------------------------------------------------------- inputs

PromptNames ==
    {"writing_v2", "writing", "chapter_plan", "rewrite_guardrails",
     "optimize_dialogue", "optimize_environment", "optimize_psychology",
     "optimize_rhythm"}

\* Prompt stores the pipeline is run against.
PromptStores ==
    {PromptNames,
     PromptNames \ {"rewrite_guardrails"},
     PromptNames \ {"writing_v2", "chapter_plan"},
     PromptNames \ {"writing_v2", "writing"},
     {"writing"}}

\* A deployment with no stored configuration and no environment variable.
DefaultSys ==
    [stored |-> <<NoVal, NoVal>>,
     env |-> <<NoVal, NoVal, NoVal>>,
     settings |-> SettingsVersions,
     vector_store_enabled |-> TRUE]

\* The deployments generate_chapter is run in: settings.vector_store_enabled
\* on or off.
Deployments == {[DefaultSys EXCEPT !.vector_store_enabled = b] : b \in BOOLEAN}

\* FlowConfig.model_dump() of a request that sets nothing but the preset.
BaseFlowConfig(preset) ==
    [preset |-> preset,
     versions |-> NoVal,
     enable_preview |-> Null,
     enable_optimizer |-> Null,
     enable_consistency |-> Null,
     enable_enrichment |-> Null,
     async_finalize |-> Null,
     enable_rag |-> Null,
     rag_mode |-> Null,
     extra_true |-> {}]

\* The flow_configs generate_chapter is run with.
FlowConfigs ==
    {[BaseFlowConfig("basic") EXCEPT !.versions = IntVal(n), !.enable_rag = "false"] :
        n \in 1..MaxVersions}
    \cup {BaseFlowConfig("basic"),
          [BaseFlowConfig("custom") EXCEPT !.enable_preview = "true",
                                           !.enable_rag = "false",
                                           !.versions = IntVal(1)],
          [BaseFlowConfig("ultimate") EXCEPT !.enable_preview = "true",
                                             !.enable_optimizer = "true",
                                             !.versions = IntVal(1)],
          [BaseFlowConfig("enhanced") EXCEPT !.versions = IntVal(1)],
          [BaseFlowConfig("enhanced") EXCEPT !.versions = IntVal(2), !.enable_rag = "false"],
          [BaseFlowConfig("basic") EXCEPT !.enable_consistency = "true",
                                          !.enable_enrichment = "true",
                                          !.versions = IntVal(1)],
          [BaseFlowConfig("basic") EXCEPT !.enable_optimizer = "true",
                                          !.versions = IntVal(1)],
          [BaseFlowConfig("custom") EXCEPT !.enable_consistency = "true",
                                           !.enable_enrichment = "true",
                                           !.enable_rag = "false",
                                           !.versions = IntVal(2)]}

FlagValues == {Absent, Null, "true", "false"}

\* The flow_configs _resolve_config is applied to: every preset, every value of
\* the four stage flags, and the keys it does not read (extra_true) passed as
\* true.
AllFlowConfigs ==
    [preset : {Absent, "basic", "enhanced", "ultimate", "custom"},
     versions : {NoVal, IntVal(0), IntVal(MaxVersions)},
     enable_preview : FlagValues,
     enable_optimizer : FlagValues,
     enable_consistency : FlagValues,
     enable_enrichment : FlagValues,
     async_finalize : {Null, "true"},
     enable_rag : {Null, "false"},
     rag_mode : {Null, "simple"},
     extra_true : {{}, {"enable_six_dimension", "enable_reader_sim", "enable_self_critique"}}]

\* Raw responses of the prose-generation LLM call.
GenResponses ==
    {Text(TRUE, FALSE, Plain("A")),
     Text(FALSE, TRUE, JObj("content", JStr("B"))),
     Prose("")}

\* Raw responses of the guardrail-rewrite LLM call.
RewriteResponses ==
    {Prose(""),
     Text(TRUE, FALSE, Plain("")),
     Text(TRUE, FALSE, Plain("R")),
     Text(FALSE, TRUE, JObj("content", JStr("B")))}

\* Raw responses of the chapter_plan LLM call: a mission object, or prose.
JMission(pov, allowed) == [t |-> "mission", pov |-> pov, allowed_new_characters |-> allowed]

MissionResponses ==
    {Text(TRUE, TRUE, JMission("hero", <<"newcomer">>)),
     Text(FALSE, FALSE, JList(<<>>)),
     Prose("A")}

GuardrailPass == [passed |-> TRUE, violations |-> <<>>]

GuardrailFail ==
    [passed |-> FALSE,
     violations |-> <<[type |-> "forbidden_character", severity |-> "high",
                       description |-> "D"]>>]

\* ChapterGuardrails.check: the results it may return for a text. The checks
\* look for names and narration in the text, so an empty text passes.
guardrails_check(generated_text) ==
    IF IsEmpty(generated_text) THEN {GuardrailPass} ELSE {GuardrailPass, GuardrailFail}

\* An exception raised inside a collaborator: it carries what the collaborator
\* knows, so it names no version index.
ServiceError(source) == [none |-> FALSE, source |-> source, status |-> 0, version |-> NoneV]

\* HTTPException(status_code=...) raised by generate_chapter itself.
HttpError(status) ==
    [none |-> FALSE, source |-> "generate_chapter", status |-> status, version |-> NoneV]

Event(op, i) == [op |-> op, i |-> i]

\* The call of post-processing stage st on the text input; output is the text
\* the stage left as best_content, None when its service raised.
StageEvent(st, input, output) == [op |-> st, i |-> -1, input |-> input, output |-> output]

\* allowed_new_characters taken as empty whatever the mission says.
AllowedNewCharactersDropped(chapter_mission) == <<>>

\* allowed_new_characters of generate_chapter (line 123).
AllowedNewCharacters(chapter_mission) ==
    IF chapter_mission.none THEN <<>> ELSE chapter_mission.v.allowed_new_characters

\* The characters of the blueprint of the project: a protagonist, present
\* from the first chapter on, and three others.
BlueprintCharacters ==
    {[name |-> "hero", protagonist |-> TRUE],
     [name |-> "friend", protagonist |-> FALSE],
     [name |-> "newcomer", protagonist |-> FALSE],
     [name |-> "villain", protagonist |-> FALSE]}

\* The characters the summaries of the completed chapters refer to.
SummaryMentions == {"friend"}

\* WriterContextBuilder.build_visibility_context: a character is introduced
\* when a completed summary refers to it or it is a protagonist; every
\* other character is forbidden unless the mission allows it as new; the
\* writer blueprint keeps the characters that are not forbidden.
build_visibility_context(characters, mentioned, allowed_new_characters) ==
    LET introduced == {c.name : c \in {x \in characters : x.protagonist \/ x.name \in mentioned}}
        allowed == {allowed_new_characters[k] : k \in 1..Len(allowed_new_characters)}
        forbidden == ({c.name : c \in characters} \ introduced) \ allowed
    IN [writer_blueprint |-> {c \in characters : c.name \notin forbidden},
        forbidden_characters |-> forbidden,
        introduced_characters |-> introduced]

\* visibility_context of generate_chapter (lines 125-137).
VisibilityContext(chapter_mission) ==
    build_visibility_context(BlueprintCharacters, SummaryMentions,
                             AllowedNewCharacters(chapter_mission))

\* The call of build_visibility_context, with the allowed new characters it
\* was given.
VisibilityEvent(chapter_mission) ==
    [op |-> "build_visibility_context", i |-> -1,
     allowed |-> AllowedNewCharacters(chapter_mission)]

\* The call of _build_prompt_sections, with the forbidden characters it was
\* given (line 209).
PromptEvent(chapter_mission) ==
    [op |-> "build_prompt_sections", i |-> -1,
     forbidden |-> VisibilityContext(chapter_mission).forbidden_characters]

\* The pov the guardrail check is given (line 787).
MissionPov(chapter_mission) ==
    IF chapter_mission.none THEN NoneV ELSE Some(chapter_mission.v.pov)

\* The guardrail check of version i, with the text, the forbidden and the
\* allowed new characters and the pov it was given.
CheckEvent(i, text) ==
    [op |-> "check", i |-> i, text |-> text,
     pov |-> MissionPov(mission), allowed |-> AllowedNewCharacters(mission),
     forbidden |-> VisibilityContext(mission).forbidden_characters]

\* The chapter_plan LLM call, with what it did.
MissionEvent(o) == [op |-> "mission_llm", i |-> -1, outcome |-> o]

\* ------------------------------------------------------------------- init

NoReviewSummaries ==
    [ai_review |-> NoneV, enhanced_review |-> NoneV, self_critique |-> NoneV,
     reader_simulator |-> NoneV, consistency |-> NoneV, optimizer |-> NoneV,
     enrichment |-> NoneV]

InitChapter ==
    [status |-> "successful", selected_version_id |-> Some(1), real_summary |-> Some("S")]

\* The chapter record before the request: none yet, or one of an earlier
\* generation.
Chapters == {NoneV, InitChapter}

InitCommon ==
    /\ pc = "start"
    /\ config = NoneV
    /\ mission = NoneV
    /\ enhanced_context = NoneV
    /\ memory_context = NoneV
    /\ rag_context = NoneV
    /\ knowledge_context = NoneV
    /\ rag_stats = NoneV
    /\ idx = 0
    /\ cur = NoneV
    /\ versions = <<>>
    /\ hist = <<>>
    /\ log = <<>>
    /\ reviewed = [kind |-> "pending"]
    /\ best_version_index = 0
    /\ best_content = NoneV
    /\ review_summaries = NoReviewSummaries
    /\ stored = <<[content |-> Prose("old"), metadata |-> NoneV]>>
    /\ result = NoneV
    /\ error = NoneV

\* The requests generate_chapter is run with. The deployment without vector
\* store is run with the requests that retrieve; a request for several
\* versions and several post-processing stages, or for more than two
\* versions, is run against the complete prompt store, and one for several
\* versions of the enhanced preset against the store without chapter_plan.
Requests ==
    {r \in [flow_config : FlowConfigs, prompts : PromptStores, sys : Deployments] :
        /\ ~r.sys.vector_store_enabled => r.flow_config.enable_rag # "false"
        /\ (r.flow_config.versions # IntVal(1) /\ r.flow_config.enable_enrichment = "true")
                => r.prompts = PromptNames
        /\ r.flow_config.versions \notin {NoVal, IntVal(1), IntVal(2)}
                => r.prompts = PromptNames
        /\ (r.flow_config.preset = "enhanced" /\ r.flow_config.versions # IntVal(1))
                => r.prompts = PromptNames \ {"writing_v2", "chapter_plan"}}

Init ==
    /\ InitCommon
    /\ \E r \in Requests :
        /\ flow_config = r.flow_config
        /\ prompts = r.prompts
        /\ sys = r.sys
    /\ chapter \in Chapters
    /\ outline_exists \in BOOLEAN

\* ---------------------------------------------------------------- helpers

\* generate_chapter raises e: the request ends, nothing after the raise runs.
Raise(e) ==
    /\ pc' = "failed"
    /\ error' = e

DefaultStyleHints == <<"H1", "H2", "H3">>

Prefix(seq, n) == SubSeq(seq, 1, Min(n, Len(seq)))

\* PipelineOrchestrator._resolve_style_hints.
_resolve_style_hints(ctx, version_count) ==
    IF ~ctx.none /\ ctx.v.version_style_hints # <<>>
    THEN Prefix(ctx.v.version_style_hints, version_count)
    ELSE Prefix(DefaultStyleHints, version_count)

\* A mutant of StyleHint: a version beyond the hints takes the last hint.
StyleHintRepeatsLast(i) ==
    LET hints == _resolve_style_hints(enhanced_context, config.version_count)
    IN IF i < Len(hints) THEN Some(hints[i + 1])
       ELSE IF hints # <<>> THEN Some(hints[Len(hints)]) ELSE NoneV

\* style_hint of version i (generate_chapter, line 226).
StyleHint(i) ==
    LET hints == _resolve_style_hints(enhanced_context, config.version_count)
    IN IF i < Len(hints) THEN Some(hints[i + 1]) ELSE NoneV

\* The metadata dict _generate_single_version starts with (lines 746-750);
\* a key that is not set yet is None.
BaseMetadata(i) ==
    [chapter_mission |-> mission,
     style_hint |-> StyleHint(i),
     pipeline |-> [preset |-> config.preset],
     preview |-> NoneV,
     guardrail |-> NoneV,
     parsed_json |-> NoneV,
     ai_review |-> NoneV,
     review_summaries |-> NoneV]

\* guardrail_metadata of _generate_single_version (lines 789-795).
GuardrailMetadata(r) ==
    [passed |-> r.passed,
     violations |->
        IF ~r.passed
        THEN [k \in 1..Len(r.violations) |->
                [type |-> r.violations[k].type,
                 severity |-> r.violations[k].severity,
                 description |-> r.violations[k].description]]
        ELSE <<>>]

\* What the rewrite may meet: no rewrite_guardrails prompt, an LLM call that
\* raises, or an LLM response.
RewriteOutcomes ==
    IF "rewrite_guardrails" \notin prompts
    THEN {[kind |-> "no_prompt"]}
    ELSE {[kind |-> "raise"]} \cup {[kind |-> "ok", response |-> r] : r \in RewriteResponses}

\* A mutant of RewriteCalls: a failed rewrite call is retried once.
RewriteCallsRetry(o, i) ==
    CASE o.kind = "no_prompt" -> <<>>
      [] o.kind = "raise" -> <<Event("rewrite_llm", i), Event("rewrite_llm", i)>>
      [] OTHER -> <<Event("rewrite_llm", i)>>

\* The LLM calls _rewrite_with_guardrails issues (lines 869-893): none when
\* the prompt is missing, else one.
RewriteCalls(o, i) ==
    IF o.kind = "no_prompt" THEN <<>> ELSE <<Event("rewrite_llm", i)>>

\* A mutant of _rewrite_with_guardrails: a failed call yields no text.
RewriteDropsOriginal(original_text, o) ==
    IF o.kind = "ok" THEN remove_think_tags(o.response) ELSE EmptyText

\* PipelineOrchestrator._rewrite_with_guardrails: the text it returns.
_rewrite_with_guardrails(original_text, o) ==
    CASE o.kind = "no_prompt" -> original_text
      [] o.kind = "raise" -> original_text
      [] OTHER -> remove_think_tags(o.response)

\* The tail of _generate_single_version (lines 804-820): parse, extract,
\* build the version dict.
FinishVersion(i, content, metadata, guardrail_metadata) ==
    LET parsed == JsonLoadable(content)
        extracted == IF parsed THEN _extract_text(json_loads(content)) ELSE NoneV
    IN [index |-> i,
        content |-> IF ~extracted.none THEN Prose(extracted.v) ELSE content,
        metadata |-> [metadata EXCEPT
                        !.guardrail = Some(guardrail_metadata),
                        !.parsed_json = IF parsed THEN Some(json_loads(content)) ELSE NoneV]]

\* The version is complete and the review begins at once, whatever the
\* number of versions asked for.
CompleteVersionReviewsEarly(content, metadata, guardrail_metadata, generated, repair, events) ==
    /\ versions' = Append(versions, FinishVersion(idx, content, metadata, guardrail_metadata))
    /\ hist' = Append(hist, [generated |-> generated, repair |-> repair,
                             version |-> FinishVersion(idx, content, metadata,
                                                       guardrail_metadata)])
    /\ log' = log \o events
    /\ idx' = idx + 1
    /\ cur' = NoneV
    /\ pc' = "review"
    /\ UNCHANGED error

\* The version is complete: it joins versions and the loop moves on
\* (generate_chapter, lines 225-246).
CompleteVersion(content, metadata, guardrail_metadata, generated, repair, events) ==
    /\ versions' = Append(versions, FinishVersion(idx, content, metadata, guardrail_metadata))
    /\ hist' = Append(hist, [generated |-> generated, repair |-> repair,
                             version |-> FinishVersion(idx, content, metadata,
                                                       guardrail_metadata)])
    /\ log' = log \o events
    /\ idx' = idx + 1
    /\ cur' = NoneV
    /\ pc' = IF idx + 1 < config.version_count THEN "version" ELSE "review"
    /\ UNCHANGED error

\* _generate_single_version from the guardrail check on (lines 783-802): a
\* text that passes completes the version, one that fails goes to the rewrite.
CheckAndContinue(content, metadata, events) ==
    \E r \in guardrails_check(content) :
        IF r.passed
        THEN CompleteVersion(content, metadata, GuardrailMetadata(r), content, "passed",
                             events \o <<CheckEvent(idx, content)>>)
        ELSE /\ cur' = [content |-> content, metadata |-> metadata,
                        guardrail |-> GuardrailMetadata(r)]
             /\ log' = log \o events \o <<CheckEvent(idx, content)>>
             /\ pc' = "rewrite"
             /\ UNCHANGED <<versions, hist, idx, error>>

\* A mutant of ClampBest: the lower clamp is forgotten.
ClampBestNoLower(b, n) == IF n > 0 THEN Min(b, n - 1) ELSE 0

\* best_version_index of generate_chapter (lines 258-261).
ClampBest(b, n) == IF n > 0 THEN Max(0, Min(b, n - 1)) ELSE 0

\* What the comparative review may meet: the service raises, returns nothing,
\* or returns a result whose best_version_index is any integer around the
\* valid range.
ReviewOutcomes(n) ==
    {[kind |-> "raise"], [kind |-> "none"]}
    \cup {[kind |-> "ok", best |-> b] : b \in -1..n}

\* The "ai_review" annotation of variant k (0-based) for reviewer index b
\* (_run_ai_review, lines 946-952).
AiReviewAnnotation(k, b) ==
    Some([is_best |-> (k = b),
          scores |-> "scores",
          evaluation |-> IF k = b THEN Some("evaluation") ELSE NoneV,
          flaws |-> IF k = b THEN Some("flaws") ELSE NoneV,
          suggestions |-> IF k = b THEN Some("suggestions") ELSE NoneV])

\* A mutant of _run_ai_review: a single version is sent to the review too.
AiReviewNoShortCircuit(vs, o) ==
    IF o.kind # "ok"
    THEN [best |-> 0, result |-> NoneV, versions |-> vs, calls |-> <<Event("review", -1)>>]
    ELSE [best |-> o.best,
          result |-> Some([best_version_index |-> o.best,
                           scores |-> "scores", evaluation |-> "evaluation",
                           flaws |-> "flaws", suggestions |-> "suggestions"]),
          versions |-> [k \in 1..Len(vs) |->
                          [vs[k] EXCEPT !.metadata.ai_review = AiReviewAnnotation(k - 1, o.best)]],
          calls |-> <<Event("review", -1)>>]

\* A mutant of _run_ai_review: a failed review still annotates the versions
\* and reports a summary.
AiReviewReportsFailure(vs, o) ==
    [best |-> IF o.kind = "ok" THEN o.best ELSE 0,
     result |-> Some([best_version_index |-> IF o.kind = "ok" THEN o.best ELSE 0,
                      scores |-> "scores", evaluation |-> "evaluation",
                      flaws |-> "flaws", suggestions |-> "suggestions"]),
     versions |-> [k \in 1..Len(vs) |->
                     [vs[k] EXCEPT !.metadata.ai_review = AiReviewAnnotation(k - 1, 0)]],
     calls |-> <<Event("review", -1)>>]

\* PipelineOrchestrator._run_ai_review: the index and summary it returns, the
\* versions as it leaves them, and the review calls it issued. o is what the
\* review service does when it is called.
_run_ai_review(vs, o) ==
    IF Len(vs) <= 1
    THEN [best |-> 0, result |-> NoneV, versions |-> vs, calls |-> <<>>]
    ELSE IF o.kind # "ok"
    THEN [best |-> 0, result |-> NoneV, versions |-> vs, calls |-> <<Event("review", -1)>>]
    ELSE [best |-> o.best,
          result |-> Some([best_version_index |-> o.best,
                           scores |-> "scores", evaluation |-> "evaluation",
                           flaws |-> "flaws", suggestions |-> "suggestions"]),
          versions |-> [k \in 1..Len(vs) |->
                          [vs[k] EXCEPT !.metadata.ai_review = AiReviewAnnotation(k - 1, o.best)]],
          calls |-> <<Event("review", -1)>>]

\* ---------------------------------------------------------------- actions

\* The chapter record once generate_chapter has fetched or created it and
\* marked it (lines 87-91).
GeneratingChapter ==
    [status |-> "generating", selected_version_id |-> NoneV, real_summary |-> NoneV]

\* A mutant of Start: the chapter is marked before the outline is looked up.
StartMarksChapterFirst ==
    /\ pc = "start"
    /\ config' = _resolve_config(flow_config, sys)
    /\ log' = Append(log, Event("get_outline", -1))
    /\ chapter' = GeneratingChapter
    /\ IF ~outline_exists
       THEN Raise(HttpError(404))
       ELSE /\ pc' = "mission"
            /\ UNCHANGED error
    /\ UNCHANGED <<inputs, context, reviewed, mission, enhanced_context, idx, cur, versions,
                   hist, best_version_index, best_content, review_summaries, stored, result>>

\* generate_chapter, lines 80-91: resolve the config, look the outline up,
\* mark the chapter as generating.
Start ==
    /\ pc = "start"
    /\ config' = _resolve_config(flow_config, sys)
    /\ log' = Append(log, Event("get_outline", -1))
    /\ IF ~outline_exists
       THEN /\ Raise(HttpError(404))
            /\ UNCHANGED chapter
       ELSE /\ chapter' = GeneratingChapter
            /\ pc' = "mission"
            /\ UNCHANGED error
    /\ UNCHANGED <<inputs, context, reviewed, mission, enhanced_context, idx, cur, versions, hist,
                   best_version_index, best_content, review_summaries, stored, result>>

\* What the chapter_plan call may meet.
MissionOutcomes ==
    IF "chapter_plan" \notin prompts
    THEN {[kind |-> "no_prompt"]}
    ELSE {[kind |-> "raise"]} \cup {[kind |-> "ok", response |-> r] : r \in MissionResponses}

\* A mutant of _generate_chapter_mission: a failure yields a default mission.
MissionDefaultsOnFailure(o) ==
    IF o.kind = "ok"
        /\ JsonLoadable(unwrap_markdown_json(remove_think_tags(o.response)))
        /\ json_loads(unwrap_markdown_json(remove_think_tags(o.response))).t = "mission"
    THEN Some(json_loads(unwrap_markdown_json(remove_think_tags(o.response))))
    ELSE Some(JMission("narrator", <<>>))

\* PipelineOrchestrator._generate_chapter_mission: the mission it returns.
_generate_chapter_mission(o) ==
    IF o.kind # "ok" THEN NoneV
    ELSE LET normalized == unwrap_markdown_json(remove_think_tags(o.response))
         IN IF JsonLoadable(normalized) /\ json_loads(normalized).t = "mission"
            THEN Some(json_loads(normalized))
            ELSE NoneV

\* generate_chapter, lines 111-146: the mission, then the visibility
\* context built from it.
MissionStep ==
    /\ pc = "mission"
    /\ \E o \in MissionOutcomes :
        /\ mission' = _generate_chapter_mission(o)
        /\ log' = log \o (IF o.kind = "no_prompt" THEN <<>> ELSE <<MissionEvent(o)>>)
                      \o <<VisibilityEvent(_generate_chapter_mission(o))>>
    /\ pc' = "enhanced"
    /\ UNCHANGED <<inputs, context, reviewed, config, chapter, enhanced_context, idx, cur,
                   versions, hist,
                   best_version_index, best_content, review_summaries, stored, result, error>>

\* enhanced_flow is created (generate_chapter, line 150).
HasEnhancedFlow ==
    config.enable_constitution \/ config.enable_persona
        \/ config.enable_foreshadowing \/ config.enable_faction

\* The contexts EnhancedWritingFlow.prepare_writing_context may return.
EnhancedContexts ==
    {[version_style_hints |-> <<>>], [version_style_hints |-> <<"E1">>]}

\* Where generate_chapter goes after the memory layer (lines 168-171).
AfterMemory == IF config.enable_rag THEN "rag" ELSE "prompt"

\* Where generate_chapter goes after the enhanced context (lines 158-159).
AfterEnhanced == IF config.enable_memory THEN "memory" ELSE AfterMemory

\* generate_chapter, lines 148-156: the enhanced writing context.
EnhancedStep ==
    /\ pc = "enhanced"
    /\ IF ~HasEnhancedFlow
       THEN /\ pc' = AfterEnhanced
            /\ UNCHANGED <<enhanced_context, log, error>>
       ELSE /\ log' = Append(log, Event("prepare_writing_context", -1))
            /\ \/ /\ Raise(ServiceError("enhanced_flow"))
                  /\ UNCHANGED enhanced_context
               \/ /\ \E ctx \in EnhancedContexts : enhanced_context' = Some(ctx)
                  /\ pc' = AfterEnhanced
                  /\ UNCHANGED error
    /\ UNCHANGED <<inputs, context, reviewed, config, chapter, mission, idx, cur, versions, hist,
                   best_version_index, best_content, review_summaries, stored, result>>

\* generate_chapter, lines 158-164, and _get_memory_context: the memory layer;
\* an exception of MemoryLayerService is not caught.
MemoryStep ==
    /\ pc = "memory"
    /\ log' = Append(log, Event("memory", -1))
    /\ \/ /\ Raise(ServiceError("memory_layer"))
          /\ UNCHANGED memory_context
       \/ /\ memory_context' = Some("M")
          /\ pc' = AfterMemory
          /\ UNCHANGED error
    /\ UNCHANGED <<inputs, rag_context, knowledge_context, rag_stats, reviewed, config,
                   chapter, mission, enhanced_context, idx, cur, versions, hist,
                   best_version_index, best_content, review_summaries, stored, result>>

\* PipelineOrchestrator._resolve_pov_character.
_resolve_pov_character(chapter_mission) ==
    IF chapter_mission.none THEN NoneV ELSE Some(chapter_mission.v.pov)

\* What VectorStoreService() may do when it is constructed: raise the
\* RuntimeError the orchestrator expects, or return the store.
VectorStoreInits == {"runtime_error", "ok"}

\* What ChapterContextService.retrieve_for_generation may do: raise, or return
\* a context with its chunks and summaries.
SimpleRetrievals ==
    {[kind |-> "raise"],
     [kind |-> "ok", chunks |-> <<"c1", "c2">>, summaries |-> <<"s1">>]}

NoRagContext == [chunks |-> <<>>, summaries |-> <<>>]

\* PipelineOrchestrator._get_rag_context: what it returns (raised = TRUE when
\* the retrieval raised out of it) and the calls it issued. init and o are
\* what the vector store and the retrieval do when they are called.
_get_rag_context(enabled, init, o) ==
    IF ~enabled
    THEN [raised |-> FALSE, rag_context |-> NoRagContext, calls |-> <<>>]
    ELSE IF init = "runtime_error"
    THEN [raised |-> FALSE, rag_context |-> NoRagContext,
          calls |-> <<Event("vector_store_init", -1)>>]
    ELSE [raised |-> o.kind = "raise",
          rag_context |-> IF o.kind = "raise" THEN NoRagContext
                          ELSE [chunks |-> o.chunks, summaries |-> o.summaries],
          calls |-> <<Event("vector_store_init", -1), Event("retrieve_for_generation", -1)>>]

\* A hit of the vector search (RetrievedKnowledge): its content and the
\* chapter it comes from.
Hit(content, chapter_number) == [content |-> content, chapter_number |-> chapter_number]

\* What the query LLM call may do: raise, return nothing, or return n
\* non-blank lines.
QueryOutcomes ==
    {[kind |-> "raise"], [kind |-> "none"]} \cup {[kind |-> "lines", n |-> n] : n \in 0..MaxLines}

\* KnowledgeRetrievalService._generate_search_queries: the queries, named by
\* their line number.
_generate_search_queries(blueprint, q) ==
    IF blueprint /\ q.kind = "lines" THEN [k \in 1..Min(q.n, QueryLimit) |-> k] ELSE <<>>

\* What the vector search of a query may do: raise, find no embedding for
\* the query, or return hits: none ("empty"), TopK hits no other query
\* returns ("fresh"), or hits every query returns, one of them twice
\* ("shared").
SearchKinds == {"raise", "no_embedding", "empty", "fresh", "shared"}

\* The hits the search of query k returns.
SearchResults(k, kind) ==
    CASE kind = "fresh" -> [j \in 1..TopK |-> Hit(<<k, j>>, k)]
      [] kind = "shared" -> <<Hit(<<0, 1>>, 1), Hit(<<0, 2>>, 2), Hit(<<0, 1>>, 3)>>
      [] OTHER -> <<>>

\* The loop of _retrieve_from_vector_store left at the first query that
\* fails.
RECURSIVE SearchUntilFailure(_, _, _)
SearchUntilFailure(queries, searches, k) ==
    IF k > Len(queries) \/ searches[k] \in {"raise", "no_embedding"} THEN <<>>
    ELSE SearchResults(queries[k], searches[k])
         \o SearchUntilFailure(queries, searches, k + 1)

\* The loop of _retrieve_from_vector_store (lines 441-475) from query k on:
\* what it appends to retrieved.
RECURSIVE SearchAll(_, _, _)
SearchAll(queries, searches, k) ==
    IF k > Len(queries) THEN <<>>
    ELSE SearchResults(queries[k], searches[k]) \o SearchAll(queries, searches, k + 1)

\* A deduplication that keeps the last hit of each content.
RECURSIVE DedupKeepsLast(_)
DedupKeepsLast(retrieved) ==
    IF retrieved = <<>> THEN <<>>
    ELSE IF \E i \in 2..Len(retrieved) : retrieved[i].content = Head(retrieved).content
         THEN DedupKeepsLast(Tail(retrieved))
         ELSE <<Head(retrieved)>> \o DedupKeepsLast(Tail(retrieved))

\* The deduplication of _retrieve_from_vector_store (lines 477-484).
RECURSIVE Dedup(_)
Dedup(retrieved) ==
    IF retrieved = <<>> THEN <<>>
    ELSE LET before == Dedup(SubSeq(retrieved, 1, Len(retrieved) - 1))
             r == retrieved[Len(retrieved)]
         IN IF \E i \in 1..Len(before) : before[i].content = r.content
            THEN before
            ELSE Append(before, r)

\* KnowledgeRetrievalService._retrieve_from_vector_store: what the searches
\* returned and the unique hits; one search per query.
_retrieve_from_vector_store(queries, searches) ==
    [raw |-> SearchAll(queries, searches, 1),
     unique |-> Dedup(SearchAll(queries, searches, 1)),
     calls |-> [k \in 1..Len(queries) |-> Event("search", queries[k])]]

\* FilteredContext with nothing in it.
EmptyFiltered ==
    [plot_fuel |-> <<>>, character_info |-> <<>>, world_fragments |-> <<>>,
     narrative_techniques |-> <<>>, warnings |-> <<>>]

\* What the filter LLM call may do: raise, return nothing, return text that
\* is no JSON, return JSON that is no object, or return the categories.
FilterKinds == {"raise", "none", "no_json", "not_object", "ok"}

\* The filter LLM call, with the hits its prompt was built from.
FilterEvent(hits) == [op |-> "filter_llm", i |-> -1, hits |-> hits]

\* _filter_knowledge keeping the raw response as plot fuel when it cannot
\* be parsed.
FilterKeepsRawText(retrieved, f) ==
    IF retrieved = <<>>
    THEN [filtered |-> EmptyFiltered, calls |-> <<>>]
    ELSE [filtered |-> IF f \in {"ok", "no_json", "not_object"}
                       THEN [EmptyFiltered EXCEPT !.plot_fuel = <<"fuel">>]
                       ELSE EmptyFiltered,
          calls |-> <<FilterEvent(Prefix(retrieved, FilterLimit))>>]

\* KnowledgeRetrievalService._filter_knowledge: the FilteredContext and the
\* call issued.
_filter_knowledge(retrieved, f) ==
    IF retrieved = <<>>
    THEN [filtered |-> EmptyFiltered, calls |-> <<>>]
    ELSE [filtered |-> IF f = "ok" THEN [EmptyFiltered EXCEPT !.plot_fuel = <<"fuel">>]
                       ELSE EmptyFiltered,
          calls |-> <<FilterEvent(Prefix(retrieved, FilterLimit))>>]

\* What the collaborators of KnowledgeRetrievalService.retrieve_and_filter
\* do in a request: the chapter blueprint exists or not; the query LLM call
\* raises or returns one query; the vector search raises or returns one hit;
\* the filter LLM call raises, returns text that is no JSON, or returns the
\* categories.
FilterOutcomes ==
    LET ok == [blueprint |-> TRUE,
               query |-> [kind |-> "lines", n |-> 1],
               searches |-> <<"fresh">>,
               filter |-> "ok"]
    IN {[ok EXCEPT !.blueprint = FALSE],
        [ok EXCEPT !.query = [kind |-> "raise"]],
        [ok EXCEPT !.searches = <<"raise">>],
        [ok EXCEPT !.filter = "raise"],
        [ok EXCEPT !.filter = "no_json"],
        ok}

\* KnowledgeRetrievalService.retrieve_and_filter: the FilteredContext it
\* returns, the calls it issued and what it went through.
retrieve_and_filter(o, pov_character) ==
    LET queries == _generate_search_queries(o.blueprint, o.query)
        found == _retrieve_from_vector_store(queries, o.searches)
        f == _filter_knowledge(found.unique, o.filter)
        total == Len(f.filtered.plot_fuel) + Len(f.filtered.character_info)
                 + Len(f.filtered.world_fragments) + Len(f.filtered.narrative_techniques)
                 + Len(f.filtered.warnings)
    IN [filtered |->
            [plot_fuel |-> f.filtered.plot_fuel,
             character_info |-> f.filtered.character_info,
             world_fragments |-> f.filtered.world_fragments,
             narrative_techniques |-> f.filtered.narrative_techniques,
             warnings |-> f.filtered.warnings,
             stats |-> [query_count |-> Len(queries),
                        retrieved_count |-> Len(found.unique),
                        total_filtered |-> total,
                        pov_character |-> pov_character]],
        calls |-> (IF o.blueprint THEN <<Event("query_llm", -1)>> ELSE <<>>)
                  \o found.calls \o f.calls,
        queries |-> queries,
        raw |-> found.raw,
        retrieved |-> found.unique]

\* _format_filtered_context rendering no text when no section has items.
FormatWithoutPlaceholder(filtered) ==
    IF filtered.plot_fuel = <<>> /\ filtered.character_info = <<>>
        /\ filtered.world_fragments = <<>> /\ filtered.narrative_techniques = <<>>
        /\ filtered.warnings = <<>>
    THEN Some("")
    ELSE Some("sections")

\* PipelineOrchestrator._format_filtered_context: the sections that have
\* items, or the placeholder text when none has.
_format_filtered_context(filtered) ==
    IF filtered.plot_fuel = <<>> /\ filtered.character_info = <<>>
        /\ filtered.world_fragments = <<>> /\ filtered.narrative_techniques = <<>>
        /\ filtered.warnings = <<>>
    THEN Some("placeholder")
    ELSE Some("sections")

\* The stats of a two-stage retrieval that did not run (lines 599-606).
TwoStageOff(err) ==
    Some([mode |-> "two_stage", enabled |-> FALSE, error |-> err])

\* PipelineOrchestrator._get_two_stage_rag_context: the context text, the
\* stats and the calls issued.
_get_two_stage_rag_context(enabled, init, o, pov_character) ==
    IF ~enabled
    THEN [knowledge_context |-> NoneV, rag_stats |-> TwoStageOff(NoneV), calls |-> <<>>,
          retrieval |-> NoneV]
    ELSE IF init = "runtime_error"
    THEN [knowledge_context |-> NoneV, rag_stats |-> TwoStageOff(Some("RuntimeError")),
          calls |-> <<Event("vector_store_init", -1)>>,
          retrieval |-> NoneV]
    ELSE LET r == retrieve_and_filter(o, pov_character)
         IN [knowledge_context |-> _format_filtered_context(r.filtered),
             rag_stats |-> Some([mode |-> "two_stage",
                                 query_count |-> r.filtered.stats.query_count,
                                 retrieved_count |-> r.filtered.stats.retrieved_count,
                                 total_filtered |-> r.filtered.stats.total_filtered,
                                 pov_character |-> r.filtered.stats.pov_character]),
             calls |-> <<Event("vector_store_init", -1), Event("retrieve_and_filter", -1)>>
                       \o r.calls,
             retrieval |-> Some([queries |-> r.queries, raw |-> r.raw,
                                 retrieved |-> r.retrieved, filtered |-> r.filtered])]

\* generate_chapter, lines 168-192: the retrieval, two-stage or simple.
RagStep ==
    /\ pc = "rag"
    /\ \E init \in VectorStoreInits :
        IF config.rag_mode = "two_stage"
        THEN \E o \in FilterOutcomes :
                LET r == _get_two_stage_rag_context(sys.vector_store_enabled, init, o,
                                                    _resolve_pov_character(mission))
                IN /\ knowledge_context' = r.knowledge_context
                   /\ rag_stats' = r.rag_stats
                   /\ log' = log \o r.calls
                   /\ pc' = "prompt"
                   /\ UNCHANGED <<rag_context, error>>
        ELSE \E o \in SimpleRetrievals :
                LET r == _get_rag_context(sys.vector_store_enabled, init, o)
                IN /\ log' = log \o r.calls
                   /\ IF r.raised
                      THEN /\ Raise(ServiceError("chapter_context_service"))
                           /\ UNCHANGED <<rag_context, rag_stats>>
                      ELSE /\ rag_context' = Some(r.rag_context)
                           /\ rag_stats' =
                                Some([mode |-> "simple",
                                      chunks |-> Len(r.rag_context.chunks),
                                      summaries |-> Len(r.rag_context.summaries)])
                           /\ pc' = "prompt"
                           /\ UNCHANGED error
                   /\ UNCHANGED knowledge_context
    /\ UNCHANGED <<inputs, memory_context, reviewed, config, chapter, mission,
                   enhanced_context, idx, cur, versions, hist, best_version_index,
                   best_content, review_summaries, stored, result>>

\* A mutant of HasWriterPrompt: the "writing" prompt is not tried.
HasWriterPromptV2Only == "writing_v2" \in prompts

\* writer_prompt of generate_chapter (lines 194-197): "writing_v2", else
\* "writing".
HasWriterPrompt == "writing_v2" \in prompts \/ "writing" \in prompts

\* generate_chapter, lines 194-225: the writing prompt is mandatory; with
\* it the prompt sections are built and the version loop starts.
PromptStep ==
    /\ pc = "prompt"
    /\ IF HasWriterPrompt
       THEN /\ pc' = IF config.version_count > 0 THEN "version" ELSE "review"
            /\ log' = Append(log, PromptEvent(mission))
            /\ UNCHANGED error
       ELSE /\ Raise(HttpError(500))
            /\ UNCHANGED log
    /\ UNCHANGED <<inputs, context, reviewed, config, chapter, mission, enhanced_context, idx,
                   cur, versions,
                   hist, best_version_index, best_content, review_summaries, stored,
                   result>>

\* What PreviewGenerationService.generate_with_preview may return as
\* full_chapter.
PreviewTexts == {EmptyText, Prose("P")}

\* _generate_single_version, lines 752-765: the preview sub-pass.
PreviewCall ==
    /\ pc = "version"
    /\ config.enable_preview
    /\ \/ /\ Raise(ServiceError("preview_service"))
          /\ log' = Append(log, Event("preview", idx))
          /\ UNCHANGED <<cur, versions, hist, idx>>
       \/ \E full_chapter \in PreviewTexts :
            LET metadata == [BaseMetadata(idx) EXCEPT
                                !.preview = Some([full_chapter |-> full_chapter])]
            IN IF IsEmpty(full_chapter)
               THEN /\ cur' = [content |-> full_chapter, metadata |-> metadata,
                               guardrail |-> NoneV]
                    /\ log' = Append(log, Event("preview", idx))
                    /\ pc' = "generate"
                    /\ UNCHANGED <<versions, hist, idx, error>>
               ELSE CheckAndContinue(full_chapter, metadata, <<Event("preview", idx)>>)
    /\ UNCHANGED <<inputs, context, reviewed, config, chapter, mission, enhanced_context,
                   best_version_index, best_content, review_summaries, stored, result>>

\* _generate_single_version, lines 767-802: the generation call, then the
\* guardrail check of what it returned.
GenerateCall ==
    /\ \/ pc = "version" /\ ~config.enable_preview
       \/ pc = "generate"
    /\ LET metadata == IF pc = "generate" THEN cur.metadata ELSE BaseMetadata(idx)
       IN \/ /\ Raise(ServiceError("llm_service"))
             /\ log' = Append(log, Event("generate_llm", idx))
             /\ UNCHANGED <<cur, versions, hist, idx>>
          \/ \E response \in GenResponses :
                CheckAndContinue(unwrap_markdown_json(remove_think_tags(response)),
                                 metadata, <<Event("generate_llm", idx)>>)
    /\ UNCHANGED <<inputs, context, reviewed, config, chapter, mission, enhanced_context,
                   best_version_index, best_content, review_summaries, stored, result>>

\* A mutant of RewriteCall: the rewritten text is checked again and the
\* guardrail metadata is taken from the second check.
RewriteCallRechecks ==
    /\ pc = "rewrite"
    /\ \E o \in RewriteOutcomes :
        LET rewritten == _rewrite_with_guardrails(cur.content, o)
        IN \E r \in guardrails_check(rewritten) :
            CompleteVersion(rewritten, cur.metadata, GuardrailMetadata(r), cur.content,
                            o.kind, RewriteCalls(o, idx) \o <<CheckEvent(idx, rewritten)>>)
    /\ UNCHANGED <<inputs, context, reviewed, config, chapter, mission, enhanced_context,
                   best_version_index, best_content, review_summaries, stored, result>>

\* _generate_single_version, lines 796-820: the repair of a text that failed
\* the check; what it returns is the version's content.
RewriteCall ==
    /\ pc = "rewrite"
    /\ \E o \in RewriteOutcomes :
        CompleteVersion(_rewrite_with_guardrails(cur.content, o), cur.metadata,
                        cur.guardrail, cur.content, o.kind, RewriteCalls(o, idx))
    /\ UNCHANGED <<inputs, context, reviewed, config, chapter, mission, enhanced_context,
                   best_version_index, best_content, review_summaries, stored, result>>

\* Python's seq[i] for an index inside the list, negative ones counting from
\* the end.
PyIndex(seq, i) == IF i < 0 THEN seq[Len(seq) + i + 1] ELSE seq[i + 1]

\* A mutant of PostStages: the enrichment runs before the consistency check.
PostStagesEnrichmentFirst ==
    <<"six_dimension", "self_critique", "reader_sim", "enrichment", "consistency",
      "optimizer">>

\* The stages of the post-processing chain, in the order of the code.
PostStages ==
    <<"six_dimension", "self_critique", "reader_sim", "consistency", "optimizer",
      "enrichment">>

StageIndex(st) == CHOOSE k \in 1..Len(PostStages) : PostStages[k] = st

\* The guards of the post-processing chain (generate_chapter, lines 267-310).
StageEnabled(st) ==
    CASE st = "six_dimension" -> HasEnhancedFlow /\ config.enable_six_dimension
      [] st = "self_critique" -> config.enable_self_critique
      [] st = "reader_sim" -> config.enable_reader_sim
      [] st = "consistency" -> config.enable_consistency
      [] st = "optimizer" -> config.enable_optimizer
      [] st = "enrichment" -> config.enable_enrichment

\* The first enabled stage from position k on, "store" when there is none.
RECURSIVE NextPc(_)
NextPc(k) ==
    IF k > Len(PostStages) THEN "store"
    ELSE IF StageEnabled(PostStages[k]) THEN PostStages[k] ELSE NextPc(k + 1)

\* generate_chapter, lines 248-265: the comparative review and the choice of
\* the best version.
ReviewStep ==
    /\ pc = "review"
    /\ \E o \in (IF Len(versions) <= 1 THEN {[kind |-> "none"]}
                 ELSE ReviewOutcomes(Len(versions))) :
        LET r == _run_ai_review(versions, o)
            best == ClampBest(r.best, Len(versions))
        IN /\ versions' = r.versions
           /\ log' = log \o r.calls
           /\ reviewed' = [kind |-> IF Len(versions) <= 1 THEN "skipped" ELSE o.kind,
                            best |-> r.best,
                            versions |-> r.versions]
           /\ review_summaries' =
                IF ~r.result.none
                THEN [review_summaries EXCEPT !.ai_review = r.result]
                ELSE review_summaries
           /\ best_version_index' = best
           /\ best_content' =
                IF versions # <<>> THEN Some(PyIndex(r.versions, best).content) ELSE NoneV
    /\ pc' = IF versions # <<>> THEN NextPc(1) ELSE "store"
    /\ UNCHANGED <<inputs, context, config, chapter, mission, enhanced_context, idx, cur, hist,
                   stored, result, error>>

\* needs_fix of _run_consistency_check (lines 1034-1037).
NeedsFix(violations) ==
    \E k \in 1..Len(violations) : violations[k] \in {"critical", "major"}

\* The call of service.auto_fix and what it returned.
AutoFixEvent(violations, fix) ==
    [op |-> "auto_fix", i |-> -1, violations |-> violations, fix |-> fix]

\* A mutant of _run_consistency_check: auto-fix is asked for any violation.
ConsistencyFixesAny(chapter_text, o) ==
    LET needs_fix == o.violations # <<>>
        fixed == needs_fix /\ ~o.fix.none /\ ~IsEmpty(o.fix.v)
    IN [content |-> IF fixed THEN o.fix.v ELSE chapter_text,
        summary |-> Some([violations |-> o.violations, auto_fix_applied |-> fixed]),
        calls |-> IF needs_fix THEN <<AutoFixEvent(o.violations, o.fix)>> ELSE <<>>]

\* PipelineOrchestrator._run_consistency_check (lines 1006-1044) on what
\* check_consistency and auto_fix return: o.fix is the return of auto_fix,
\* None, an empty text or a text.
_run_consistency_check(chapter_text, o) ==
    LET needs_fix == NeedsFix(o.violations)
        fixed == needs_fix /\ ~o.fix.none /\ ~IsEmpty(o.fix.v)
    IN [content |-> IF fixed THEN o.fix.v ELSE chapter_text,
        summary |-> Some([violations |-> o.violations, auto_fix_applied |-> fixed]),
        calls |-> IF needs_fix THEN <<AutoFixEvent(o.violations, o.fix)>> ELSE <<>>]

\* The call of service.check_and_enrich and what it returned.
EnrichEvent(returned) == [op |-> "check_and_enrich", i |-> -1, result |-> returned]

\* A mutant of _run_enrichment: a null result is reported as an enrichment.
EnrichmentReportsNull(chapter_content, o) ==
    [content |-> IF o.none THEN chapter_content ELSE o.v.enriched_content,
     summary |-> Some("enrichment_report"), calls |-> <<EnrichEvent(o)>>]

\* PipelineOrchestrator._run_enrichment (lines 1093-1114) with
\* generate_chapter lines 315-316: summary is the review_summaries entry.
_run_enrichment(chapter_content, o) ==
    IF o.none
    THEN [content |-> chapter_content, summary |-> NoneV, calls |-> <<EnrichEvent(o)>>]
    ELSE [content |-> o.v.enriched_content, summary |-> Some("enrichment_report"),
          calls |-> <<EnrichEvent(o)>>]

\* What the service of a stage may return when it does not raise.
StageResults(st) ==
    CASE st = "six_dimension" -> {[report |-> "six_dimension"]}
      [] st = "self_critique" ->
            {[final_content |-> NoneV], [final_content |-> Some(Prose("C"))]}
      [] st = "reader_sim" -> {[report |-> "reader_feedback"]}
      [] st = "consistency" ->
            {o \in [violations : {<<>>, <<"minor">>, <<"minor", "critical">>},
                    fix : {NoneV, Some(Prose("F"))}] :
                ~NeedsFix(o.violations) => o.fix = NoneV}
      [] st = "enrichment" -> {NoneV, Some([enriched_content |-> Prose("E")])}

\* _run_self_critique, _run_consistency_check, _run_enrichment and the two
\* report-only stages: the content and the review_summaries entry a stage
\* leaves, given what its service returned.
StageApply(st, content, o) ==
    CASE st = "six_dimension" ->
            [content |-> content, summary |-> Some(o.report), calls |-> <<>>]
      [] st = "self_critique" ->
            [content |-> IF o.final_content.none THEN content ELSE o.final_content.v,
             summary |-> Some("critique_summary"), calls |-> <<>>]
      [] st = "reader_sim" -> [content |-> content, summary |-> Some(o.report), calls |-> <<>>]
      [] st = "consistency" -> _run_consistency_check(content, o)
      [] st = "enrichment" -> _run_enrichment(content, o)

SummaryKey(st) ==
    CASE st = "six_dimension" -> "enhanced_review"
      [] st = "self_critique" -> "self_critique"
      [] st = "reader_sim" -> "reader_simulator"
      [] st = "consistency" -> "consistency"
      [] st = "enrichment" -> "enrichment"

\* generate_chapter, lines 267-316 without the optimizer: one enabled stage
\* of the post-processing chain, its service returning one of Results(pc);
\* an exception of its service is not caught.
StagePass(Results(_)) ==
    /\ pc \in {"six_dimension", "self_critique", "reader_sim", "consistency", "enrichment"}
    /\ \/ /\ Raise(ServiceError(pc))
          /\ log' = Append(log, StageEvent(pc, best_content.v, NoneV))
          /\ UNCHANGED <<best_content, review_summaries>>
       \/ \E o \in Results(pc) :
            LET r == StageApply(pc, best_content.v, o)
            IN /\ best_content' = Some(r.content)
               /\ log' = log \o r.calls
                            \o <<StageEvent(pc, best_content.v, Some(r.content))>>
               /\ review_summaries' = [review_summaries EXCEPT ![SummaryKey(pc)] = r.summary]
               /\ pc' = NextPc(StageIndex(pc) + 1)
               /\ UNCHANGED error
    /\ UNCHANGED <<inputs, context, reviewed, config, chapter, mission, enhanced_context, idx,
                   cur, versions,
                   hist, best_version_index, stored, result>>

PostStage == StagePass(StageResults)

OptDimensions == <<"dialogue", "environment", "psychology", "rhythm">>

OptPrompt(dimension) ==
    CASE dimension = "dialogue" -> "optimize_dialogue"
      [] dimension = "environment" -> "optimize_environment"
      [] dimension = "psychology" -> "optimize_psychology"
      [] dimension = "rhythm" -> "optimize_rhythm"

\* Raw responses of an optimizer LLM call.
OptimizerResponses ==
    {Text(TRUE, TRUE, JObj("optimized_content", JStr("O"))),
     Text(TRUE, FALSE, Plain("O2"))}

\* A JSON value used as chapter content.
ValueAsContent(v) == IF v.t = "str" THEN Prose(v.s) ELSE Text(FALSE, FALSE, v)

\* One pass of the loop of _run_optimizer (lines 1056-1089) over a response:
\* the content and the note it leaves; a JSON response that is no object
\* raises inside the try and leaves both as they were.
OptimizeParse(content, dimension, response) ==
    LET cleaned == remove_think_tags(response)
        normalized == unwrap_markdown_json(cleaned)
    IN IF ~JsonLoadable(normalized)
       THEN [content |-> cleaned, notes |-> <<[dimension |-> dimension, notes |-> "nonstandard"]>>]
       ELSE IF json_loads(normalized).t # "obj"
       THEN [content |-> content, notes |-> <<>>]
       ELSE [content |-> IF HasKey(json_loads(normalized), "optimized_content")
                         THEN ValueAsContent(Get(json_loads(normalized), "optimized_content"))
                         ELSE cleaned,
             notes |-> <<[dimension |-> dimension, notes |-> "done"]>>]

\* The call of the LLM for dimension number dim: the text it was given and,
\* when the pass succeeded, the content the pass left.
OptimizerEvent(dim, input, output) ==
    [op |-> "optimizer_llm", i |-> dim, input |-> input, output |-> output]

\* _run_optimizer, one dimension per step (lines 1046-1091) and, after the
\* last one, generate_chapter lines 307-308; the LLM call raises or returns
\* one of Responses.
OptimizerPass(Responses) ==
    /\ pc = "optimizer"
    /\ LET st == IF cur.none THEN [dim |-> 1, content |-> best_content.v, notes |-> <<>>]
                 ELSE cur
           dimension == OptDimensions[st.dim]
           Finish(content, notes, calls) ==
                IF st.dim < Len(OptDimensions)
                THEN /\ cur' = [none |-> FALSE, dim |-> st.dim + 1, content |-> content,
                                notes |-> notes]
                     /\ log' = log \o calls
                     /\ UNCHANGED <<pc, best_content, review_summaries>>
                ELSE /\ cur' = NoneV
                     /\ best_content' = Some(content)
                     /\ review_summaries' =
                            [review_summaries EXCEPT !.optimizer = Some([steps |-> notes])]
                     /\ log' = log \o calls
                                \o <<StageEvent("optimizer", best_content.v, Some(content))>>
                     /\ pc' = NextPc(StageIndex("optimizer") + 1)
       IN IF OptPrompt(dimension) \notin prompts
          THEN Finish(st.content, st.notes, <<>>)
          ELSE \/ Finish(st.content, st.notes,
                         <<OptimizerEvent(st.dim, st.content, NoneV)>>)
               \/ \E response \in Responses :
                    LET r == OptimizeParse(st.content, dimension, response)
                    IN Finish(r.content, st.notes \o r.notes,
                              <<OptimizerEvent(st.dim, st.content,
                                               IF r.notes = <<>> THEN NoneV
                                               ELSE Some(r.content))>>)
    /\ UNCHANGED <<inputs, context, reviewed, config, chapter, mission, enhanced_context, idx,
                   versions, hist,
                   best_version_index, stored, result, error>>

OptimizerStep == OptimizerPass(OptimizerResponses)

\* PipelineOrchestrator._build_stage_flags.
_build_stage_flags(c) ==
    [preview |-> c.enable_preview,
     optimizer |-> c.enable_optimizer,
     consistency |-> c.enable_consistency,
     enrichment |-> c.enable_enrichment,
     constitution |-> c.enable_constitution,
     persona |-> c.enable_persona,
     six_dimension |-> c.enable_six_dimension,
     reader_sim |-> c.enable_reader_sim,
     self_critique |-> c.enable_self_critique,
     memory |-> c.enable_memory,
     rag |-> c.enable_rag,
     rag_mode |-> (c.rag_mode = "two_stage")]

\* A mutant of FinalVersions: every version gets the post-processed content
\* and the review summaries.
FinalVersionsAll(vs, best, content, summaries) ==
    [k \in 1..Len(vs) |->
        [vs[k] EXCEPT !.content = content.v,
                      !.metadata.review_summaries = Some(summaries)]]

\* generate_chapter, lines 263-265 and 318-319: the versions once the best
\* one has taken the post-processed content and the review summaries.
FinalVersions(vs, best, content, summaries) ==
    IF vs # <<>>
    THEN [vs EXCEPT ![best + 1].content = content.v,
                    ![best + 1].metadata.review_summaries = Some(summaries)]
    ELSE vs

\* generate_chapter, lines 318-347: the best version takes the post-processed
\* content, the versions replace the stored ones, the response is built.
StoreStep ==
    /\ pc = "store"
    /\ LET final == FinalVersions(versions, best_version_index, best_content,
                                  review_summaries)
       IN /\ versions' = final
          /\ stored' = [k \in 1..Len(final) |->
                          [content |-> final[k].content, metadata |-> final[k].metadata]]
          /\ result' =
                Some([preset |-> config.preset,
                      best_version_index |-> best_version_index,
                      variants |-> [k \in 1..Len(final) |->
                                      [index |-> k - 1, version_id |-> k,
                                       content |-> final[k].content,
                                       metadata |-> final[k].metadata]],
                      review_summaries |-> review_summaries,
                      debug_metadata |-> [version_count |-> config.version_count,
                                          stages |-> _build_stage_flags(config),
                                          retrieval_stats |-> rag_stats]])
    /\ log' = Append(log, Event("replace_chapter_versions", -1))
    /\ pc' = "done"
    /\ UNCHANGED <<inputs, context, reviewed, config, chapter, mission, enhanced_context, idx,
                   cur, hist,
                   best_version_index, best_content, review_summaries, error>>

Next ==
    \/ Start
    \/ MissionStep
    \/ EnhancedStep
    \/ MemoryStep
    \/ RagStep
    \/ PromptStep
    \/ PreviewCall
    \/ GenerateCall
    \/ RewriteCall
    \/ ReviewStep
    \/ PostStage
    \/ OptimizerStep
    \/ StoreStep

Spec == Init /\ [][Next]_vars

\* ------------------------------------------- _resolve_config on its own

InitConfig ==
    /\ InitCommon
    /\ sys = DefaultSys
    /\ chapter = InitChapter
    /\ flow_config \in AllFlowConfigs
    /\ prompts = PromptNames
    /\ outline_exists = TRUE

\* _resolve_config applied to the flow_config.
ResolveConfig ==
    /\ pc = "start"
    /\ config' = _resolve_config(flow_config, sys)
    /\ pc' = "resolved"
    /\ UNCHANGED <<inputs, context, reviewed, chapter, mission, enhanced_context, idx, cur,
                   versions, hist,
                   log, best_version_index, best_content, review_summaries, stored,
                   result, error>>

NextConfig == ResolveConfig

SpecConfig == InitConfig /\ [][NextConfig]_vars

\* ------------------------------------ _resolve_version_count on its own

\* What a stored record, an environment variable holds: nothing, a text
\* that is not an integer, or an integer.
SourceValues == {NoVal, BadVal} \cup {IntVal(n) : n \in 0..MaxCount}

\* The versions value of a request: missing, not a number, or an integer.
RequestedValues == {NoVal, BadVal} \cup {IntVal(n) : n \in -1..MaxCount}

\* settings.writer_chapter_versions as the deployment configures it.
SettingsValues == {0, SettingsVersions}

VersionDeployments ==
    {[DefaultSys EXCEPT !.stored = st, !.env = en, !.settings = se] :
        st \in [1..2 -> SourceValues], en \in [1..3 -> SourceValues], se \in SettingsValues}

InitVersions ==
    /\ InitCommon
    /\ sys \in VersionDeployments
    /\ chapter = InitChapter
    /\ \E r \in RequestedValues : flow_config = [BaseFlowConfig("basic") EXCEPT !.versions = r]
    /\ prompts = PromptNames
    /\ outline_exists = TRUE

SpecVersions == InitVersions /\ [][NextConfig]_vars

\* --------------------------- _generate_single_version over response shapes

JsonKeys == {"content", "text", "story", "title"}

JsonLeaves == {JStr(""), JStr("A"), JStr("B"), JNum}

\* The objects of n members with values from values.
Dicts(values, n) ==
    {JDict([i \in 1..n |-> [k |-> ks[i], v |-> vs[i]]]) :
        ks \in {f \in [1..n -> JsonKeys] : \A i, j \in 1..n : i # j => f[i] # f[j]},
        vs \in [1..n -> values]}

\* The lists of n items from values.
Lists(values, n) == {JList(vs) : vs \in [1..n -> values]}

\* Values an object nests under a key: leaves, an object and lists.
JsonNested == JsonLeaves \cup {JObj("title", JStr("A")), JObj("text", JStr("A")),
                               JList(<<JStr("A")>>), JList(<<>>)}

\* The objects and lists of leaves, by their kind and size.
JsonFlat(kind, n) == IF kind = "obj" THEN Dicts(JsonLeaves, n) ELSE Lists(JsonLeaves, n)

\* The sizes of the objects and of the lists of leaves.
FlatSizes(kind) == IF kind = "obj" THEN 0..MaxKeys ELSE 0..MaxItems

\* cur holds a raw response of the generation call, over the shapes of its
\* content: prose, a leaf, an object or a list of leaves, one of those held
\* by an object or by a list, and an object of two members with nested
\* values.
ShapedResponse ==
    \E b \in BOOLEAN :
        LET Is(v) == cur = [response |-> Text(b, b, v)] IN
        \/ \E x \in {"", "A"} : cur = [response |-> Text(b, FALSE, Plain(x))]
        \/ \E v \in JsonLeaves : Is(v) \/ Is(JList(<<v>>)) \/ \E k \in JsonKeys : Is(JObj(k, v))
        \/ \E kind \in {"obj", "list"} : \E n \in FlatSizes(kind) : \E v \in JsonFlat(kind, n) :
              Is(v) \/ Is(JList(<<v>>)) \/ \E k \in JsonKeys : Is(JObj(k, v))
        \/ \E v \in Dicts(JsonNested, 2) : Is(v)

\* _generate_single_version is called for the only version of a basic
\* request whose mission could not be generated; the generation call is
\* about to return cur.response.
InitShapes ==
    /\ pc = "generate"
    /\ flow_config = [BaseFlowConfig("basic") EXCEPT !.versions = IntVal(1)]
    /\ sys = DefaultSys
    /\ prompts = PromptNames
    /\ outline_exists = TRUE
    /\ config = _resolve_config(flow_config, sys)
    /\ chapter = GeneratingChapter
    /\ mission = NoneV
    /\ enhanced_context = NoneV
    /\ memory_context = NoneV
    /\ rag_context = NoneV
    /\ knowledge_context = NoneV
    /\ rag_stats = NoneV
    /\ idx = 0
    /\ ShapedResponse
    /\ versions = <<>>
    /\ hist = <<>>
    /\ log = <<>>
    /\ reviewed = [kind |-> "pending"]
    /\ best_version_index = 0
    /\ best_content = NoneV
    /\ review_summaries = NoReviewSummaries
    /\ stored = <<[content |-> Prose("old"), metadata |-> NoneV]>>
    /\ result = NoneV
    /\ error = NoneV

\* _generate_single_version, lines 767-802, on the response at hand.
GenerateShaped ==
    /\ pc = "generate"
    /\ CheckAndContinue(unwrap_markdown_json(remove_think_tags(cur.response)),
                        BaseMetadata(idx), <<Event("generate_llm", idx)>>)
    /\ UNCHANGED <<inputs, context, reviewed, config, chapter, mission, enhanced_context,
                   best_version_index, best_content, review_summaries, stored, result>>

NextShapes ==
    \/ GenerateShaped
    \/ RewriteCall

SpecShapes == InitShapes /\ [][NextShapes]_vars

\* ------------------------------------------- the two-stage retrieval alone

\* generate_chapter has reached the retrieval of a request of the enhanced
\* preset (two-stage mode) whose mission could not be generated; the
\* collaborators are about to do cur.outcome.
InitRetrieval ==
    /\ pc = "rag"
    /\ flow_config = [BaseFlowConfig("enhanced") EXCEPT !.versions = IntVal(1)]
    /\ sys = DefaultSys
    /\ prompts = PromptNames
    /\ outline_exists = TRUE
    /\ config = _resolve_config(flow_config, sys)
    /\ chapter = GeneratingChapter
    /\ mission = NoneV
    /\ enhanced_context = NoneV
    /\ memory_context = NoneV
    /\ rag_context = NoneV
    /\ knowledge_context = NoneV
    /\ rag_stats = NoneV
    /\ idx = 0
    /\ \E b \in BOOLEAN, q \in QueryOutcomes, f \in FilterKinds :
        \E searches \in [1..Len(_generate_search_queries(b, q)) -> SearchKinds] :
            cur = [outcome |-> [blueprint |-> b, query |-> q, searches |-> searches,
                                filter |-> f]]
    /\ versions = <<>>
    /\ hist = <<>>
    /\ log = <<>>
    /\ reviewed = [kind |-> "pending"]
    /\ best_version_index = 0
    /\ best_content = NoneV
    /\ review_summaries = NoReviewSummaries
    /\ stored = <<[content |-> Prose("old"), metadata |-> NoneV]>>
    /\ result = NoneV
    /\ error = NoneV

\* generate_chapter, lines 168-178: the two-stage retrieval with the
\* outcomes at hand; cur keeps what retrieve_and_filter went through.
TwoStageStep ==
    /\ pc = "rag"
    /\ config.rag_mode = "two_stage"
    /\ LET r == _get_two_stage_rag_context(sys.vector_store_enabled, "ok", cur.outcome,
                                           _resolve_pov_character(mission))
       IN /\ knowledge_context' = r.knowledge_context
          /\ rag_stats' = r.rag_stats
          /\ log' = log \o r.calls
          /\ cur' = [outcome |-> cur.outcome,
                     queries |-> r.retrieval.v.queries,
                     raw |-> r.retrieval.v.raw,
                     retrieved |-> r.retrieval.v.retrieved,
                     filtered |-> r.retrieval.v.filtered]
          /\ pc' = "prompt"
    /\ UNCHANGED <<inputs, memory_context, rag_context, error, reviewed, config, chapter,
                   mission, enhanced_context, idx, versions, hist, best_version_index,
                   best_content, review_summaries, stored, result>>

NextRetrieval == TwoStageStep

SpecRetrieval == InitRetrieval /\ [][NextRetrieval]_vars

\* ---------------------------------------------- _collect_history_context

\* A text that belongs to chapter n (its summary, its tail excerpt), and the
\* empty text or None.
TextOf(n, what) == [empty |-> FALSE, of |-> n, what |-> what]
NoText == [empty |-> TRUE]

\* "暂无（这是第一章）"
HistoryPlaceholder == TextOf(0, "placeholder")

\* text or the placeholder.
OrPlaceholder(text) == IF text.empty THEN HistoryPlaceholder ELSE text

\* The chapters a project holds. content: no selected version ("none"), an
\* empty content, a content of blanks only, or text; real_summary: set or
\* not; get_summary: what the summary call does for the chapter.
StoredChapters ==
    {c \in [content : {"none", "empty", "blank", "text"}, real_summary : BOOLEAN,
            get_summary : {"raise", "empty", "ok"}] :
        /\ c.content \in {"none", "empty"} => (~c.real_summary /\ c.get_summary = "ok")
        /\ c.content = "blank" => c.real_summary
        /\ c.real_summary => c.get_summary = "ok"}

\* The orders in which m chapters of a project are iterated: numbers are
\* the chapter numbers, each at most once.
ChapterOrders(m) ==
    {f \in [1..m -> 1..MaxChapters] : \A i, j \in 1..m : i # j => f[i] # f[j]}

\* The chapter list of a project: chapter numbers[i] is stored as cs[i].
ChapterList(numbers, cs) ==
    [i \in DOMAIN numbers |-> [chapter_number |-> numbers[i], content |-> cs[i].content,
                               real_summary |-> cs[i].real_summary,
                               get_summary |-> cs[i].get_summary]]

\* PipelineOrchestrator._extract_tail_excerpt of the content of a chapter.
_extract_tail_excerpt(existing) ==
    IF existing.content = "text" THEN TextOf(existing.chapter_number, "tail") ELSE NoText

\* existing.real_summary after lines 448-456.
SummaryOf(existing) ==
    IF existing.real_summary \/ existing.get_summary = "ok"
    THEN TextOf(existing.chapter_number, "summary")
    ELSE NoText

\* One pass of the loop of _collect_history_context in which the chapter
\* iterated last is taken as the previous one.
HistoryPassLastWins(acc, existing, chapter_number) ==
    IF acc.raised \/ existing.chapter_number >= chapter_number
        \/ existing.content \in {"none", "empty"}
    THEN acc
    ELSE IF ~existing.real_summary /\ existing.get_summary = "raise"
    THEN [acc EXCEPT !.raised = TRUE,
                     !.calls = Append(@, Event("get_summary", existing.chapter_number))]
    ELSE [acc EXCEPT
            !.calls = IF existing.real_summary THEN @
                      ELSE Append(@, Event("get_summary", existing.chapter_number)),
            !.completed_summaries = Append(@, SummaryOf(existing)),
            !.latest_prev_number = existing.chapter_number,
            !.previous_summary = SummaryOf(existing),
            !.previous_tail = _extract_tail_excerpt(existing)]

\* One pass of the loop of _collect_history_context (lines 443-471).
HistoryPass(acc, existing, chapter_number) ==
    IF acc.raised \/ existing.chapter_number >= chapter_number
        \/ existing.content \in {"none", "empty"}
    THEN acc
    ELSE IF ~existing.real_summary /\ existing.get_summary = "raise"
    THEN [acc EXCEPT !.raised = TRUE,
                     !.calls = Append(@, Event("get_summary", existing.chapter_number))]
    ELSE LET later == existing.chapter_number > acc.latest_prev_number
         IN [acc EXCEPT
                !.calls = IF existing.real_summary THEN @
                          ELSE Append(@, Event("get_summary", existing.chapter_number)),
                !.completed_summaries = Append(@, SummaryOf(existing)),
                !.latest_prev_number = IF later THEN existing.chapter_number ELSE @,
                !.previous_summary = IF later THEN SummaryOf(existing) ELSE @,
                !.previous_tail = IF later THEN _extract_tail_excerpt(existing) ELSE @]

RECURSIVE HistoryLoop(_, _, _)
HistoryLoop(acc, chapters, chapter_number) ==
    IF chapters = <<>> THEN acc
    ELSE HistoryLoop(HistoryPass(acc, Head(chapters), chapter_number), Tail(chapters),
                     chapter_number)

\* PipelineOrchestrator._collect_history_context: the history context, the
\* summary calls issued, and whether one of them raised.
_collect_history_context(chapter_number, chapters) ==
    LET acc == HistoryLoop([raised |-> FALSE, calls |-> <<>>, completed_summaries |-> <<>>,
                            latest_prev_number |-> -1, previous_summary |-> NoText,
                            previous_tail |-> NoText],
                           chapters, chapter_number)
    IN [raised |-> acc.raised,
        calls |-> acc.calls,
        history_context |->
            [completed_summaries |-> acc.completed_summaries,
             previous_summary |-> OrPlaceholder(acc.previous_summary),
             previous_tail |-> OrPlaceholder(acc.previous_tail)]]

\* generate_chapter is about to collect the history of chapter
\* cur.chapter_number of a project that holds cur.chapters.
InitHistory ==
    /\ pc = "history"
    /\ flow_config = [BaseFlowConfig("basic") EXCEPT !.versions = IntVal(1)]
    /\ sys = DefaultSys
    /\ prompts = PromptNames
    /\ outline_exists = TRUE
    /\ config = _resolve_config(flow_config, sys)
    /\ chapter = GeneratingChapter
    /\ mission = NoneV
    /\ enhanced_context = NoneV
    /\ memory_context = NoneV
    /\ rag_context = NoneV
    /\ knowledge_context = NoneV
    /\ rag_stats = NoneV
    /\ idx = 0
    /\ \E n \in {1, MaxChapters}, m \in 0..MaxChapters :
            \E numbers \in ChapterOrders(m), cs \in [1..m -> StoredChapters] :
                cur = [chapter_number |-> n, chapters |-> ChapterList(numbers, cs)]
    /\ versions = <<>>
    /\ hist = <<>>
    /\ log = <<>>
    /\ reviewed = [kind |-> "pending"]
    /\ best_version_index = 0
    /\ best_content = NoneV
    /\ review_summaries = NoReviewSummaries
    /\ stored = <<[content |-> Prose("old"), metadata |-> NoneV]>>
    /\ result = NoneV
    /\ error = NoneV

\* generate_chapter, lines 93-100: the history context is collected; a
\* summary call that raises ends the request.
CollectHistory ==
    /\ pc = "history"
    /\ LET r == _collect_history_context(cur.chapter_number, cur.chapters)
       IN /\ log' = log \o r.calls
          /\ IF r.raised
             THEN /\ Raise(ServiceError("llm_service"))
                  /\ UNCHANGED cur
             ELSE /\ cur' = [chapter_number |-> cur.chapter_number, chapters |-> cur.chapters,
                             history_context |-> r.history_context]
                  /\ pc' = "mission"
                  /\ UNCHANGED error
    /\ UNCHANGED <<inputs, context, reviewed, config, chapter, mission, enhanced_context, idx,
                   versions, hist, best_version_index, best_content, review_summaries,
                   stored, result>>

NextHistory == CollectHistory

SpecHistory == InitHistory /\ [][NextHistory]_vars

\* ------------------------------------- the post-processing stages alone

\* The violation lists check_consistency may report, by severity.
ViolationLists ==
    {<<>>, <<"minor">>, <<"info", "minor">>, <<"minor", "critical">>, <<"major">>,
     <<"critical", "major">>}

\* What the services of the consistency and enrichment stages may return
\* when they do not raise: every violation list, auto_fix returning None, an
\* empty text or a text.
StageShapes(st) ==
    IF st = "consistency"
    THEN {o \in [violations : ViolationLists,
                 fix : {NoneV, Some(EmptyText), Some(Prose("F"))}] :
            ~NeedsFix(o.violations) => o.fix = NoneV}
    ELSE StageResults(st)

\* Raw responses of an optimizer LLM call, over their shapes: an object with
\* a text, an empty text or null under optimized_content, an object without
\* that key, a list, prose and an empty response.
OptimizerShapes ==
    {Text(TRUE, TRUE, JObj("optimized_content", JStr("O"))),
     Text(FALSE, FALSE, JObj("optimized_content", JStr(""))),
     Text(FALSE, FALSE, JObj("optimized_content", JNull)),
     Text(FALSE, FALSE, JObj("optimization_notes", JStr("A"))),
     Text(FALSE, FALSE, JList(<<>>)),
     Text(TRUE, FALSE, Plain("O2")),
     EmptyText}

\* The prompts of the four optimizer dimensions.
OptimizerPrompts == {OptPrompt(OptDimensions[d]) : d \in 1..Len(OptDimensions)}

\* Requests for one version with one post-processing stage enabled.
StageFlowConfigs ==
    {[BaseFlowConfig("basic") EXCEPT !.enable_consistency = "true", !.enable_rag = "false",
                                     !.versions = IntVal(1)],
     [BaseFlowConfig("basic") EXCEPT !.enable_optimizer = "true", !.enable_rag = "false",
                                     !.versions = IntVal(1)],
     [BaseFlowConfig("basic") EXCEPT !.enable_enrichment = "true", !.enable_rag = "false",
                                     !.versions = IntVal(1)]}

\* generate_chapter has generated the only version of the request, whose
\* text passed the guardrail check, and is about to run the enabled stage
\* on it; a request that runs the optimizer meets every set of optimizer
\* prompts.
InitStages ==
    /\ flow_config \in StageFlowConfigs
    /\ sys = DefaultSys
    /\ \E missing \in SUBSET OptimizerPrompts :
            /\ missing # {} => flow_config.enable_optimizer = "true"
            /\ prompts = PromptNames \ missing
    /\ outline_exists = TRUE
    /\ config = _resolve_config(flow_config, sys)
    /\ chapter = GeneratingChapter
    /\ mission = NoneV
    /\ enhanced_context = NoneV
    /\ memory_context = NoneV
    /\ rag_context = NoneV
    /\ knowledge_context = NoneV
    /\ rag_stats = NoneV
    /\ idx = 1
    /\ cur = NoneV
    /\ \E text \in {Prose("G"), EmptyText} :
            /\ versions = <<FinishVersion(0, text, BaseMetadata(0),
                                          GuardrailMetadata(GuardrailPass))>>
            /\ hist = <<[generated |-> text, repair |-> "passed", version |-> versions[1]]>>
            /\ best_content = Some(text)
    /\ log = <<Event("generate_llm", 0)>>
    /\ reviewed = [kind |-> "skipped", best |-> 0, versions |-> versions]
    /\ best_version_index = 0
    /\ review_summaries = NoReviewSummaries
    /\ stored = <<[content |-> Prose("old"), metadata |-> NoneV]>>
    /\ result = NoneV
    /\ error = NoneV
    /\ pc = NextPc(1)

PostStageShaped == StagePass(StageShapes)

OptimizerShaped == OptimizerPass(OptimizerShapes)

NextStages ==
    \/ PostStageShaped
    \/ OptimizerShaped
    \/ StoreStep

SpecStages == InitStages /\ [][NextStages]_vars

\* ------------------------------ the legacy route writer.generate_chapter

\* Python's None where a text is expected.
NullContent == Text(FALSE, FALSE, JNull)

\* json.dumps of a variant dict.
JsonDumps(variant) == Text(FALSE, FALSE, [t |-> "json_dumps", variant |-> variant])

\* _rewrite_with_guardrails of api/routers/writer.py (lines 173-187): the
\* function ends after the check of the prompt, so it returns the original
\* text when rewrite_guardrails is not configured and None when it is; it
\* calls no LLM.
writer_rewrite_with_guardrails(original_text) ==
    IF "rewrite_guardrails" \notin prompts THEN original_text ELSE NullContent

\* generate_chapter._generate_single_version of api/routers/writer.py from
\* the guardrail check on: the variant dict for the text normalized and the
\* guardrail result r. json.loads of None raises and is caught.
writer_generate_single_version(normalized, r) ==
    LET final_content == IF r.passed THEN normalized
                         ELSE writer_rewrite_with_guardrails(normalized)
        parsed == final_content # NullContent /\ JsonLoadable(final_content)
        extracted == IF parsed THEN _extract_text(json_loads(final_content)) ELSE NoneV
    IN [content |-> IF ~extracted.none THEN Prose(extracted.v) ELSE final_content,
        parsed_json |-> IF parsed THEN Some(json_loads(final_content)) ELSE NoneV,
        guardrail |-> GuardrailMetadata(r),
        chapter_mission |-> mission,
        ai_review |-> NoneV]

\* The content stored for a variant (writer.generate_chapter, lines
\* 766-779): its content when that is a string, else, the dict holding no
\* "chapter_content", the serialisation of the whole dict.
WriterContent(variant) ==
    IF variant.content # NullContent THEN variant.content ELSE JsonDumps(variant)

\* The legacy route has marked the chapter "generating", built its prompt
\* and resolved the number of versions; the version loop begins.
InitLegacy ==
    /\ pc = "writer_version"
    /\ flow_config = BaseFlowConfig("basic")
    /\ sys \in {DefaultSys, [DefaultSys EXCEPT !.stored = <<IntVal(1), NoVal>>]}
    /\ prompts \in {PromptNames, PromptNames \ {"rewrite_guardrails"}}
    /\ outline_exists = TRUE
    /\ config = NoneV
    /\ chapter = GeneratingChapter
    /\ mission \in {NoneV, Some(JMission("hero", <<"newcomer">>))}
    /\ enhanced_context = NoneV
    /\ memory_context = NoneV
    /\ rag_context = NoneV
    /\ knowledge_context = NoneV
    /\ rag_stats = NoneV
    /\ idx = 0
    /\ cur = [version_count |-> writer_resolve_version_count(sys)]
    /\ versions = <<>>
    /\ hist = <<>>
    /\ log = <<>>
    /\ reviewed = [kind |-> "pending"]
    /\ best_version_index = 0
    /\ best_content = NoneV
    /\ review_summaries = NoReviewSummaries
    /\ stored = <<[content |-> Prose("old"), metadata |-> NoneV]>>
    /\ result = NoneV
    /\ error = NoneV

\* writer.generate_chapter, lines 750-764 with _generate_single_version:
\* one pass of the version loop. A generation call that raises marks the
\* chapter "failed" and ends the request with status 500.
WriterVersion ==
    /\ pc = "writer_version"
    /\ \/ /\ log' = Append(log, Event("generate_llm", idx))
          /\ chapter' = [chapter EXCEPT !.status = "failed"]
          /\ Raise([HttpError(500) EXCEPT !.version = Some(idx + 1)])
          /\ UNCHANGED <<versions, hist, idx>>
       \/ \E response \in GenResponses :
            LET normalized == unwrap_markdown_json(remove_think_tags(response)) IN
            \E r \in guardrails_check(normalized) :
                /\ versions' = Append(versions, writer_generate_single_version(normalized, r))
                /\ hist' = Append(hist, [generated |-> normalized,
                                         repair |-> IF r.passed THEN "passed" ELSE "failed",
                                         version |-> writer_generate_single_version(normalized, r)])
                /\ log' = log \o <<Event("generate_llm", idx), CheckEvent(idx, normalized)>>
                /\ idx' = idx + 1
                /\ pc' = IF idx + 1 < cur.version_count THEN "writer_version" ELSE "writer_store"
                /\ UNCHANGED <<chapter, error>>
    /\ UNCHANGED <<inputs, context, reviewed, config, mission, enhanced_context, cur,
                   best_version_index, best_content, review_summaries, stored, result>>

\* writer.generate_chapter, lines 766-817: contents and metadata of the
\* variants, the comparative review of several versions, whose failure is
\* skipped, and the replacement of the stored versions.
WriterStore ==
    /\ pc = "writer_store"
    /\ \E o \in (IF Len(versions) <= 1 THEN {[kind |-> "none"]}
                 ELSE ReviewOutcomes(Len(versions))) :
        LET metadata == [k \in 1..Len(versions) |->
                            IF o.kind = "ok"
                            THEN [versions[k] EXCEPT !.ai_review =
                                                        AiReviewAnnotation(k - 1, o.best)]
                            ELSE versions[k]]
        IN /\ stored' = [k \in 1..Len(versions) |->
                            [content |-> WriterContent(versions[k]), metadata |-> metadata[k]]]
           /\ reviewed' = [kind |-> IF Len(versions) <= 1 THEN "skipped" ELSE o.kind]
           /\ log' = log \o (IF Len(versions) <= 1 THEN <<>> ELSE <<Event("review", -1)>>)
                         \o <<Event("replace_chapter_versions", -1)>>
    /\ result' = Some([project_id |-> "project"])
    /\ pc' = "done"
    /\ UNCHANGED <<inputs, context, config, chapter, mission, enhanced_context, idx, cur,
                   versions, hist, best_version_index, best_content, review_summaries, error>>

NextLegacy ==
    \/ WriterVersion
    \/ WriterStore

SpecLegacy == InitLegacy /\ [][NextLegacy]_vars

\* --------------------------- chapter edits and their background tasks

\* The texts an edit request carries.
EditContents == {Prose("X"), Prose("Y")}

\* The summary llm_service.get_summary gives of a text, with or without
\* reasoning markup around it.
EditSummary(content, think) == Text(think, FALSE, [t |-> "summary", of |-> content])

\* _refresh_edit_summary_and_ingest, lines 211-220: get_summary raises and
\* summary_text stays None, or it returns an empty summary or the summary of
\* the text, from which remove_think_tags strips the reasoning markup.
SummaryTexts(content) ==
    {NoneV} \cup {Some(remove_think_tags(s)) :
                    s \in {EmptyText, EditSummary(content, FALSE), EditSummary(content, TRUE)}}

\* A background task of _refresh_edit_summary_and_ingest as add_task queues
\* it (edit_chapter_content, lines 1129-1135).
QueuedTask(content) ==
    [at |-> "queued", content |-> content, selected |-> NoneV, summary_text |-> NoneV]

\* The content of the selected version of the chapter, None without one.
SelectedContent ==
    IF chapter.selected_version_id.none THEN NoneV
    ELSE Some(stored[chapter.selected_version_id.v].content)

\* A chapter with no version, with a version that is not selected, or with
\* a selected version; no edit has been made and no task is queued.
InitEdit ==
    /\ pc = "edit"
    /\ flow_config = BaseFlowConfig("basic")
    /\ sys = DefaultSys
    /\ prompts = PromptNames
    /\ outline_exists = TRUE
    /\ config = NoneV
    /\ \/ /\ stored = <<>>
          /\ chapter = [status |-> "not_generated", selected_version_id |-> NoneV,
                         real_summary |-> NoneV]
       \/ /\ stored = <<[content |-> Prose("old"), metadata |-> NoneV]>>
          /\ \/ chapter = [status |-> "waiting_for_confirm", selected_version_id |-> NoneV,
                            real_summary |-> NoneV]
             \/ chapter = [status |-> "successful", selected_version_id |-> Some(1),
                            real_summary |-> Some(EditSummary(Prose("old"), FALSE))]
    /\ mission = NoneV
    /\ enhanced_context = NoneV
    /\ memory_context = NoneV
    /\ rag_context = NoneV
    /\ knowledge_context = NoneV
    /\ rag_stats = NoneV
    /\ idx = 0
    /\ cur = [tasks |-> <<>>]
    /\ versions = <<>>
    /\ hist = <<>>
    /\ log = <<>>
    /\ reviewed = [kind |-> "pending"]
    /\ best_version_index = 0
    /\ best_content = NoneV
    /\ review_summaries = NoReviewSummaries
    /\ result = NoneV
    /\ error = NoneV

\* edit_chapter_content (lines 1093-1137; edit_chapter_content_fast does
\* the same): the content of the selected version, else of the latest one,
\* else of a new one, becomes the content of the request; the version is
\* selected, the chapter is "successful", and a background task is queued
\* with the content.
EditChapter ==
    /\ pc = "edit"
    /\ idx < MaxEdits
    /\ \E content \in EditContents :
        LET target == IF ~chapter.selected_version_id.none THEN chapter.selected_version_id.v
                      ELSE Len(stored)
        IN /\ IF target > 0
              THEN stored' = [stored EXCEPT ![target].content = content]
              ELSE stored' = <<[content |-> content, metadata |-> NoneV]>>
           /\ chapter' = [chapter EXCEPT !.status = "successful",
                                         !.selected_version_id = Some(IF target > 0 THEN target
                                                                      ELSE 1)]
           /\ cur' = [tasks |-> Append(cur.tasks, QueuedTask(content))]
           /\ log' = Append(log, [op |-> "edit", i |-> idx, content |-> content])
    /\ idx' = idx + 1
    /\ UNCHANGED <<inputs, context, reviewed, config, mission, enhanced_context, versions, hist,
                   best_version_index, best_content, review_summaries, result, error, pc>>

\* _refresh_edit_summary_and_ingest, lines 196-209: task t opens its
\* session and loads the chapter with its selected version.
TaskLoad(t) ==
    /\ cur.tasks[t].at = "queued"
    /\ cur' = [tasks |-> [cur.tasks EXCEPT ![t].at = "loaded",
                                           ![t].selected = SelectedContent]]
    /\ UNCHANGED <<inputs, context, reviewed, config, chapter, mission, enhanced_context, idx,
                   versions, hist, best_version_index, best_content, review_summaries, stored,
                   result, error, pc, log>>

\* Lines 211-220: the summary call of task t returns or raises.
TaskSummarise(t) ==
    /\ cur.tasks[t].at = "loaded"
    /\ \E summary_text \in SummaryTexts(cur.tasks[t].content) :
        cur' = [tasks |-> [cur.tasks EXCEPT ![t].at = "summarised",
                                            ![t].summary_text = summary_text]]
    /\ UNCHANGED <<inputs, context, reviewed, config, chapter, mission, enhanced_context, idx,
                   versions, hist, best_version_index, best_content, review_summaries, stored,
                   result, error, pc, log>>

\* Lines 222-224: task t compares the content of the selected version it
\* loaded with its own and, when they are equal and the summary is not
\* empty, writes real_summary and commits.
TaskWrite(t) ==
    /\ cur.tasks[t].at = "summarised"
    /\ LET task == cur.tasks[t]
           writes == /\ ~task.summary_text.none
                     /\ ~IsEmpty(task.summary_text.v)
                     /\ task.selected = Some(task.content)
       IN IF writes
          THEN /\ chapter' = [chapter EXCEPT !.real_summary = task.summary_text]
               /\ log' = Append(log, [op |-> "write_summary", i |-> t,
                                       content |-> task.content,
                                       selected |-> SelectedContent])
          ELSE UNCHANGED <<chapter, log>>
    /\ cur' = [tasks |-> [cur.tasks EXCEPT ![t].at = "written"]]
    /\ UNCHANGED <<inputs, context, reviewed, config, mission, enhanced_context, idx,
                   versions, hist, best_version_index, best_content, review_summaries, stored,
                   result, error, pc>>

\* Lines 226-272: task t ingests the chapter, a failure of which is caught,
\* and then reaches the statements that follow the session block, which
\* read names the function does not define: the task ends with a NameError.
TaskIngest(t) ==
    /\ cur.tasks[t].at = "written"
    /\ cur' = [tasks |-> [cur.tasks EXCEPT ![t].at = "raised"]]
    /\ UNCHANGED <<inputs, context, reviewed, config, chapter, mission, enhanced_context, idx,
                   versions, hist, best_version_index, best_content, review_summaries, stored,
                   result, error, pc, log>>

NextEdit ==
    \/ EditChapter
    \/ \E t \in 1..Len(cur.tasks) : TaskLoad(t)
    \/ \E t \in 1..Len(cur.tasks) : TaskSummarise(t)
    \/ \E t \in 1..Len(cur.tasks) : TaskWrite(t)
    \/ \E t \in 1..Len(cur.tasks) : TaskIngest(t)

SpecEdit == InitEdit /\ [][NextEdit]_vars

\* ------------------------------------------- foreshadowing reminders

\* check_and_create_reminders, line 315: a foreshadowing planted more than
\* this many chapters ago has not been mentioned for a long time.
LongDistance == 10

\* Lines 323-324: the suggested range is the next chapter and SuggestSpan
\* chapters from the current one, capped by the number of chapters.
SuggestSpan == 5

\* Line 329: current_chapter_number > total_chapters * 0.8, in integers.
NearEnd(current_chapter_number, total_chapters) ==
    10 * current_chapter_number > 8 * total_chapters

\* The reminders of foreshadowing f that are active (lines 304-310).
ActiveReminders(reminders, f) ==
    {k \in 1..Len(reminders) :
        reminders[k].foreshadowing_id = f /\ reminders[k].status = "active"}

\* create_reminder (lines 154-173): a row whose status is the column's
\* default, "active" (models/foreshadowing.py, line 98).
NewReminder(foreshadowing_id, reminder_type, suggested_chapter_range) ==
    [foreshadowing_id |-> foreshadowing_id, reminder_type |-> reminder_type,
     suggested_chapter_range |-> suggested_chapter_range, status |-> "active"]

\* The body of the loop of check_and_create_reminders for one foreshadowing
\* (lines 302-337): the reminders it creates.
RemindersFor(reminders, foreshadowing, current_chapter_number, total_chapters) ==
    IF ActiveReminders(reminders, foreshadowing.id) # {} THEN <<>>
    ELSE LET distance == current_chapter_number - foreshadowing.chapter_number
         IN (IF distance > LongDistance
             THEN <<NewReminder(foreshadowing.id, "long_time_no_mention",
                                Some([start |-> current_chapter_number + 1,
                                      end |-> Min(current_chapter_number + SuggestSpan,
                                                  total_chapters)]))>>
             ELSE <<>>)
            \o (IF NearEnd(current_chapter_number, total_chapters)
                THEN <<NewReminder(foreshadowing.id, "unresolved", NoneV)>>
                ELSE <<>>)

\* check_and_create_reminders (lines 290-339): the reminders after the loop
\* over the open foreshadowings unresolved[from..], in the order of the
\* query.
RECURSIVE CheckedReminders(_, _, _, _, _)
CheckedReminders(reminders, unresolved, from, current_chapter_number, total_chapters) ==
    IF from > Len(unresolved) THEN reminders
    ELSE CheckedReminders(
             reminders \o RemindersFor(reminders, unresolved[from], current_chapter_number,
                                       total_chapters),
             unresolved, from + 1, current_chapter_number, total_chapters)

\* get_unresolved_foreshadowings (lines 138-152): the open foreshadowings,
\* ordered by chapter_number (the rows are kept in that order).
Unresolved(foreshadowings) == SelectSeq(foreshadowings, LAMBDA f : f.status = "open")

\* The chapter a check is made at, and the number of chapters of the novel,
\* which the chapter does not exceed.
CheckChapters == {5, 12, 14}

TotalChapters == {12, 16, 30}

\* Two foreshadowings, planted in chapters 1 and 3, each open or resolved,
\* and no reminder.
InitReminders ==
    /\ pc = "reminders"
    /\ flow_config = BaseFlowConfig("basic")
    /\ sys = DefaultSys
    /\ prompts = PromptNames
    /\ outline_exists = TRUE
    /\ config = NoneV
    /\ chapter = NoneV
    /\ mission = NoneV
    /\ enhanced_context = NoneV
    /\ memory_context = NoneV
    /\ rag_context = NoneV
    /\ knowledge_context = NoneV
    /\ rag_stats = NoneV
    /\ idx = 0
    /\ \E s1 \in {"open", "resolved"}, s2 \in {"open", "resolved"} :
        cur = [foreshadowings |-> <<[id |-> 1, chapter_number |-> 1, status |-> s1],
                                    [id |-> 2, chapter_number |-> 3, status |-> s2]>>,
               reminders |-> <<>>]
    /\ versions = <<>>
    /\ hist = <<>>
    /\ log = <<>>
    /\ reviewed = [kind |-> "pending"]
    /\ best_version_index = 0
    /\ best_content = NoneV
    /\ review_summaries = NoReviewSummaries
    /\ stored = <<>>
    /\ result = NoneV
    /\ error = NoneV

\* The task check_reminders (_check_reminders_impl, lines 241-275): one
\* call of check_and_create_reminders and the commit of what it created.
CheckReminders ==
    /\ pc = "reminders"
    /\ idx < MaxChecks
    /\ \E current_chapter_number \in CheckChapters, total_chapters \in TotalChapters :
        /\ current_chapter_number <= total_chapters
        /\ cur' = [cur EXCEPT !.reminders =
                       CheckedReminders(cur.reminders, Unresolved(cur.foreshadowings), 1,
                                        current_chapter_number, total_chapters)]
    /\ log' = Append(log, [op |-> "check_reminders",
                            had_active |-> {f \in 1..Len(cur.foreshadowings) :
                                               ActiveReminders(cur.reminders, f) # {}},
                            before |-> Len(cur.reminders),
                            after |-> Len(cur'.reminders)])
    /\ idx' = idx + 1
    /\ UNCHANGED <<inputs, context, reviewed, config, chapter, mission, enhanced_context,
                   versions, hist, best_version_index, best_content, review_summaries, stored,
                   result, error, pc>>

\* dismiss_reminder (lines 191-207): a reminder becomes "dismissed".
DismissReminder ==
    /\ pc = "reminders"
    /\ \E k \in 1..Len(cur.reminders) :
        /\ cur.reminders[k].status = "active"
        /\ cur' = [cur EXCEPT !.reminders[k].status = "dismissed"]
    /\ UNCHANGED <<inputs, context, reviewed, config, chapter, mission, enhanced_context, idx,
                   versions, hist, best_version_index, best_content, review_summaries, stored,
                   result, error, pc, log>>

NextReminders == CheckReminders \/ DismissReminder

SpecReminders == InitReminders /\ [][NextReminders]_vars

\* ------------------------------------------------- emotion curve cache

\* The chapters of the novel, in the order of chapter_number
\* (get_all_chapters, lines 59-71).
EmotionChapters == <<1, 2>>

\* What get_chapter_content returns (lines 73-93): "" for a chapter with no
\* selected version, else the content of the selected version.
ChapterTexts == {"", "a", "b"}

\* get_chapter_hash (lines 17-20): the MD5 digest of the content; two
\* contents have the same digest only when they are equal.
get_chapter_hash(content) == [md5 |-> content]

\* The members of a list of chapter ids.
IdsOf(chapter_ids) == {chapter_ids[k] : k \in 1..Len(chapter_ids)}

\* check_if_needs_update (lines 22-57) for the metadata the cache returns
\* (None when there is none or Redis is not available) and the contents of
\* the chapters: the pair it returns.
check_if_needs_update(meta, contents) ==
    IF meta.none THEN [needs |-> TRUE, changed |-> <<>>]
    ELSE LET cached_hashes == meta.v.chapter_hashes
             changed_chapters ==
                 SelectSeq(EmotionChapters,
                           LAMBDA c : /\ contents[c] # ""
                                      /\ \/ c \notin DOMAIN cached_hashes
                                         \/ cached_hashes[c] # get_chapter_hash(contents[c]))
         IN [needs |-> changed_chapters # <<>>, changed |-> changed_chapters]

\* The chapters analyze_novel_emotion analyses (lines 124-130): those with
\* content, and, when chapter_ids is given and not empty, listed in it.
Analysed(chapter_ids, contents) ==
    SelectSeq(EmotionChapters,
              LAMBDA c : /\ chapter_ids.none \/ chapter_ids.v = <<>> \/ c \in IdsOf(chapter_ids.v)
                         /\ contents[c] # "")

\* analyze_novel_emotion (lines 95-177): one emotion point and one hash for
\* every analysed chapter.
analyze_novel_emotion(chapter_ids, contents) ==
    LET analysed == Analysed(chapter_ids, contents)
    IN [emotion_points |-> [k \in 1..Len(analysed) |->
                               [chapter_id |-> analysed[k], of |-> contents[analysed[k]]]],
        chapter_hashes |-> [c \in IdsOf(analysed) |-> get_chapter_hash(contents[c])]]

\* Lines 107-111 of _analyze_emotion_impl: the metadata of an analysis.
EmotionMeta(emotion_data) ==
    [total_chapters |-> Len(emotion_data.emotion_points),
     chapter_hashes |-> emotion_data.chapter_hashes]

\* Two chapters, each with or without content, and a cache that is empty
\* or holds the analysis of all the chapters.
InitEmotion ==
    /\ pc = "emotion"
    /\ flow_config = BaseFlowConfig("basic")
    /\ sys = DefaultSys
    /\ prompts = PromptNames
    /\ outline_exists = TRUE
    /\ config = NoneV
    /\ chapter = NoneV
    /\ mission = NoneV
    /\ enhanced_context = NoneV
    /\ memory_context = NoneV
    /\ rag_context = NoneV
    /\ knowledge_context = NoneV
    /\ rag_stats = NoneV
    /\ idx = 0
    /\ \E contents \in [IdsOf(EmotionChapters) -> {"", "a"}], cached \in BOOLEAN :
        LET emotion_data == analyze_novel_emotion(NoneV, contents)
        IN cur = [contents |-> contents,
                  curve |-> IF cached THEN Some(emotion_data.emotion_points) ELSE NoneV,
                  meta |-> IF cached THEN Some(EmotionMeta(emotion_data)) ELSE NoneV,
                  report |-> NoneV,
                  checks |-> 0]
    /\ versions = <<>>
    /\ hist = <<>>
    /\ log = <<>>
    /\ reviewed = [kind |-> "pending"]
    /\ best_version_index = 0
    /\ best_content = NoneV
    /\ review_summaries = NoReviewSummaries
    /\ stored = <<>>
    /\ result = NoneV
    /\ error = NoneV

\* A call of check_if_needs_update, with Redis available or not
\* (get_emotion_meta, lines 63-76 of cache_service.py).
CheckEmotion ==
    /\ pc = "emotion"
    /\ cur.checks < MaxChecks
    /\ \E available \in BOOLEAN :
        LET report == check_if_needs_update(IF available THEN cur.meta ELSE NoneV, cur.contents)
        IN /\ cur' = [cur EXCEPT !.report = Some(report), !.checks = @ + 1]
           /\ log' = Append(log, [op |-> "check_if_needs_update", available |-> available,
                                  needs |-> report.needs, changed |-> report.changed])
    /\ UNCHANGED <<inputs, context, reviewed, config, chapter, mission, enhanced_context, idx,
                   versions, hist, best_version_index, best_content, review_summaries, stored,
                   result, error, pc>>

\* The task analyze_emotion_async (_analyze_emotion_impl, lines 61-135) for
\* all chapters or for the chapters the last check reported: the analysis,
\* then set_emotion_curve and set_emotion_meta, which store nothing when
\* Redis is not available (cache_service.py, lines 45-94).
AnalyzeEmotion ==
    /\ pc = "emotion"
    /\ ~cur.report.none
    /\ \E chapter_ids \in {NoneV, Some(cur.report.v.changed)}, available \in BOOLEAN :
        LET emotion_data == analyze_novel_emotion(chapter_ids, cur.contents)
        IN /\ cur' = IF available
                     THEN [cur EXCEPT !.curve = Some(emotion_data.emotion_points),
                                      !.meta = Some(EmotionMeta(emotion_data)),
                                      !.report = NoneV]
                     ELSE [cur EXCEPT !.report = NoneV]
           /\ log' = Append(log, [op |-> "analyze_emotion_async", available |-> available,
                                  chapter_ids |-> chapter_ids])
    /\ UNCHANGED <<inputs, context, reviewed, config, chapter, mission, enhanced_context, idx,
                   versions, hist, best_version_index, best_content, review_summaries, stored,
                   result, error, pc>>

\* The content of a chapter changes (edit_chapter_content of
\* api/routers/writer.py, lines 1093-1137).
EditEmotionChapter ==
    /\ pc = "emotion"
    /\ idx < MaxEdits
    /\ \E c \in IdsOf(EmotionChapters), content \in ChapterTexts \ {""} :
        /\ cur.contents[c] # content
        /\ cur' = [cur EXCEPT !.contents[c] = content, !.report = NoneV]
        /\ log' = Append(log, [op |-> "edit_chapter_content", available |-> TRUE, i |-> c])
    /\ idx' = idx + 1
    /\ UNCHANGED <<inputs, context, reviewed, config, chapter, mission, enhanced_context,
                   versions, hist, best_version_index, best_content, review_summaries, stored,
                   result, error, pc>>

NextEmotion == CheckEmotion \/ AnalyzeEmotion \/ EditEmotionChapter

SpecEmotion == InitEmotion /\ [][NextEmotion]_vars

\* ------------------------------------------------------------- properties

\* Number of log events of kind op for version i.
Count(op, i) == Cardinality({k \in 1..Len(log) : log[k].op = op /\ log[k].i = i})

\* Positions in the log of the events of kind op for version i.
Positions(op, i) == {k \in 1..Len(log) : log[k].op = op /\ log[k].i = i}

\* The version loop and the review have not handed over to post-processing.
BeforePostProcessing == pc \in {"version", "generate", "rewrite", "review"}

GuardrailOf(k) == versions[k].metadata.guardrail.v

\* C1: for every flow_config whose preset is "ultimate", the resolved config
\* has enable_preview, enable_optimizer, enable_consistency,
\* enable_enrichment, enable_six_dimension, enable_reader_sim and
\* enable_self_critique all false, whatever flow_config carries for them.
C1_UltimateForcesStagesOff ==
    (pc = "resolved" /\ flow_config.preset = "ultimate") =>
        /\ ~config.enable_preview
        /\ ~config.enable_optimizer
        /\ ~config.enable_consistency
        /\ ~config.enable_enrichment
        /\ ~config.enable_six_dimension
        /\ ~config.enable_reader_sim
        /\ ~config.enable_self_critique

\* C1 witness: an "ultimate" request that passes true for every stage key has
\* been resolved, and the stages are off.
C1_Witness ==
    /\ pc = "resolved"
    /\ flow_config.preset = "ultimate"
    /\ flow_config.enable_preview = "true"
    /\ flow_config.enable_optimizer = "true"
    /\ flow_config.enable_consistency = "true"
    /\ flow_config.enable_enrichment = "true"
    /\ "enable_six_dimension" \in flow_config.extra_true
    /\ ~config.enable_preview
    /\ ~config.enable_six_dimension

\* C2 as claimed: every version whose check failed has exactly one rewrite LLM
\* call, every version whose check passed has none.
C2_ExactlyOneRewriteCall ==
    \A k \in 1..Len(versions) :
        Count("rewrite_llm", k - 1) = IF GuardrailOf(k).passed THEN 0 ELSE 1

\* C2 amended: a version whose check passed has no rewrite LLM call; a version
\* whose check failed has exactly one when the rewrite_guardrails prompt is
\* configured and none when it is missing; no version has more than one.
C2_OneRewriteCallWhenPromptConfigured ==
    /\ \A k \in 1..Len(versions) :
        Count("rewrite_llm", k - 1) =
            IF ~GuardrailOf(k).passed /\ "rewrite_guardrails" \in prompts THEN 1 ELSE 0
    /\ \A i \in 0..MaxVersions : Count("rewrite_llm", i) <= 1

\* C2 witness: a version that failed the check was repaired with the prompt
\* configured, by one call that raised.
C2_Witness ==
    \E k \in 1..Len(versions) :
        /\ ~GuardrailOf(k).passed
        /\ hist[k].repair = "raise"
        /\ Count("rewrite_llm", k - 1) = 1

\* C3: every version returned after a failed guardrail check has non-empty
\* content, whatever the rewrite call returns and whether or not it raises.
C3_RepairedContentNonEmpty ==
    BeforePostProcessing =>
        \A k \in 1..Len(versions) :
            ~GuardrailOf(k).passed => ~IsEmpty(versions[k].content)

\* C4: for each version the guardrail check runs exactly once, on the freshly
\* generated text and before any rewrite call; a rewritten text becomes the
\* content with no further check.
C4_SingleCheckBeforeRewrite ==
    /\ \A i \in 0..MaxVersions : Count("check", i) <= 1
    /\ \A k \in 1..Len(versions) :
        /\ Count("check", k - 1) = 1
        /\ \A c \in Positions("check", k - 1) :
            /\ log[c].text = hist[k].generated
            /\ \A g \in Positions("generate_llm", k - 1) \cup Positions("preview", k - 1) :
                g < c
            /\ \A r \in Positions("rewrite_llm", k - 1) : c < r
        /\ (BeforePostProcessing /\ hist[k].repair = "ok") =>
                /\ ~GuardrailOf(k).passed
                /\ \E response \in RewriteResponses :
                    versions[k].content =
                        FinishVersion(k - 1, remove_think_tags(response),
                                      versions[k].metadata, GuardrailOf(k)).content

\* C4 witness: a version whose rewrite succeeded is complete, its one check
\* lying before the rewrite call.
C4_Witness ==
    \E k \in 1..Len(versions) :
        /\ hist[k].repair = "ok"
        /\ Count("check", k - 1) = 1
        /\ Count("rewrite_llm", k - 1) = 1

\* The content _generate_single_version derives from a text t.
ContentOf(t) == FinishVersion(0, t, BaseMetadata(0), GuardrailPass).content

\* C5: when a version fails the check and the rewrite call raises, its content
\* is the one of the original generated text, its metadata.guardrail has
\* passed = false with the violations of the check, and the request goes on.
C5_RewriteFailureKeepsOriginal ==
    \A k \in 1..Len(versions) :
        hist[k].repair = "raise" =>
            /\ BeforePostProcessing => versions[k].content = ContentOf(hist[k].generated)
            /\ ~GuardrailOf(k).passed
            /\ GuardrailOf(k).violations = GuardrailFail.violations
            /\ (Len(versions) = k /\ BeforePostProcessing) => error.none

\* C5 witness: a request completed although the rewrite of one of its
\* versions raised.
C5_Witness ==
    /\ pc = "done"
    /\ \E k \in 1..Len(versions) : hist[k].repair = "raise"

\* The metadata of version k without its style hint, which differs from
\* version to version whatever happened to the repair.
MetadataSansStyle(k) == [versions[k].metadata EXCEPT !.style_hint = NoneV]

\* C6: for versions that failed the check, the metadata tells a rewrite that
\* succeeded from one that failed or was skipped.
C6_RepairOutcomeInMetadata ==
    \A k, j \in 1..Len(versions) :
        (/\ ~GuardrailOf(k).passed
         /\ ~GuardrailOf(j).passed
         /\ hist[k].repair = "ok"
         /\ hist[j].repair \in {"raise", "no_prompt"})
            => MetadataSansStyle(k) # MetadataSansStyle(j)

\* The review is over.
AfterReview == pc \in {"six_dimension", "self_critique", "reader_sim", "consistency",
                       "optimizer", "enrichment", "store", "done"}

\* C7: with version_count = 1 the best version is index 0, no comparative
\* review call is issued and review_summaries has no "ai_review" entry.
C7_SingleVersionSkipsReview ==
    (pc # "start" /\ config.version_count = 1) =>
        /\ Count("review", -1) = 0
        /\ review_summaries.ai_review.none
        /\ AfterReview => best_version_index = 0
        /\ pc = "done" =>
            /\ result.v.best_version_index = 0
            /\ result.v.review_summaries.ai_review.none

\* C7 witness: a one-version request has completed.
C7_Witness ==
    /\ pc = "done"
    /\ config.version_count = 1
    /\ Len(result.v.variants) = 1
    /\ result.v.best_version_index = 0

\* C8: with version_count = N > 1 and a comparative review that raises or
\* returns nothing, the response has all N variants, best_version_index = 0,
\* no "ai_review" in review_summaries and no ai_review annotation on a variant.
C8_ReviewFailureDefaultsToFirst ==
    (pc = "done" /\ config.version_count > 1 /\ reviewed.kind \in {"raise", "none"}) =>
        /\ Len(result.v.variants) = config.version_count
        /\ result.v.best_version_index = 0
        /\ result.v.review_summaries.ai_review.none
        /\ \A k \in 1..Len(result.v.variants) :
            result.v.variants[k].metadata.ai_review.none

\* C8 witness: a two-version request has completed after its review raised.
C8_Witness ==
    /\ pc = "done"
    /\ config.version_count = 2
    /\ reviewed.kind = "raise"
    /\ Count("review", -1) = 1

\* C9: every successful request with N >= 1 versions returns a
\* best_version_index in 0..N-1, for every index the reviewer may return.
C9_BestIndexInRange ==
    (pc = "done" /\ Len(result.v.variants) >= 1) =>
        /\ result.v.best_version_index >= 0
        /\ result.v.best_version_index <= Len(result.v.variants) - 1

\* C9 witness: a request has completed whose reviewer returned an index
\* outside the range.
C9_Witness ==
    /\ pc = "done"
    /\ reviewed.kind = "ok"
    /\ reviewed.best = -1
    /\ result.v.best_version_index = 0

\* C10: when the generation call of version k fails, generate_chapter fails
\* with an error that names k, no later version is generated, no review or
\* post-processing runs and the stored versions are not replaced.
C10_GenerationFailureNamesVersion ==
    (pc = "failed" /\ error.source = "llm_service") =>
        /\ error.version = Some(idx)
        /\ Len(versions) = idx
        /\ \A i \in 0..MaxVersions : i > idx => Count("generate_llm", i) = 0
        /\ Count("review", -1) = 0
        /\ \A k \in 1..Len(PostStages) : Count(PostStages[k], -1) = 0
        /\ Count("replace_chapter_versions", -1) = 0
        /\ result.none

\* What C10 claims apart from the error naming the version.
C10_GenerationFailureStopsRequest ==
    (pc = "failed" /\ error.source = "llm_service") =>
        /\ Len(versions) = idx
        /\ \A i \in 0..MaxVersions : i > idx => Count("generate_llm", i) = 0
        /\ Count("review", -1) = 0
        /\ \A k \in 1..Len(PostStages) : Count(PostStages[k], -1) = 0
        /\ Count("replace_chapter_versions", -1) = 0
        /\ stored = <<[content |-> Prose("old"), metadata |-> NoneV]>>
        /\ result.none

\* The post-processing stages as the pipeline lists them.
StageOps ==
    {"six_dimension", "self_critique", "reader_sim", "consistency", "optimizer",
     "enrichment"}

IsStageCall(e) == e.op \in StageOps

\* The calls of post-processing stages issued so far, in order.
StageCalls == SelectSeq(log, IsStageCall)

\* C11: when the service call of an enabled post-processing stage raises,
\* generate_chapter does not abort: the request does not fail and goes on to
\* return a result.
C11_StageFailureDoesNotAbort ==
    \A k \in 1..Len(StageCalls) :
        StageCalls[k].output.none => (pc # "failed" /\ error.none)

\* C12: post-processing touches only the best version: every other variant
\* of the response has the content and metadata _generate_single_version
\* produced plus the ai_review annotation and no review_summaries; the best
\* variant carries the review_summaries; until the response is built no
\* version changes.
C12_OnlyBestVersionTouched ==
    /\ (AfterReview /\ pc \notin {"done"}) => versions = reviewed.versions
    /\ pc = "done" =>
        \A k \in 1..Len(result.v.variants) :
            LET v == result.v.variants[k]
            IN IF k - 1 = result.v.best_version_index
               THEN v.metadata.review_summaries = Some(result.v.review_summaries)
               ELSE /\ v.content = hist[k].version.content
                    /\ [v.metadata EXCEPT !.ai_review = NoneV] = hist[k].version.metadata
                    /\ v.metadata.ai_review \in
                            {NoneV, AiReviewAnnotation(k - 1, reviewed.best)}
                    /\ v.metadata.review_summaries.none

\* C12 witness: a two-version response whose second version was chosen and
\* enriched, the first one keeping what was generated for it.
C12_Witness ==
    /\ pc = "done"
    /\ Len(result.v.variants) = 2
    /\ result.v.best_version_index = 1
    /\ result.v.variants[2].content = Prose("E")
    /\ result.v.variants[1].content = Prose("A")
    /\ ~result.v.variants[1].metadata.ai_review.none

\* The position the pipeline gives a stage in its chain.
StageRank(op) ==
    CASE op = "six_dimension" -> 1
      [] op = "self_critique" -> 2
      [] op = "reader_sim" -> 3
      [] op = "consistency" -> 4
      [] op = "optimizer" -> 5
      [] op = "enrichment" -> 6

\* The calls that belong to the version loop and the comparative review.
IsSelectionCall(e) == e.op \in {"preview", "generate_llm", "check", "rewrite_llm", "review"}

\* C13: the enabled post-processing stages run in the order six-dimension
\* review, self-critique, reader simulation, consistency check, optimizer,
\* enrichment, each at most once; the first receives the content of the
\* selected version and each next one the text the previous one left; all of
\* them run after the version loop and the comparative review; once the chain
\* is over, exactly the enabled stages have run.
C13_StagesRunInFixedOrder ==
    /\ \A a, b \in 1..Len(StageCalls) :
        a < b => StageRank(StageCalls[a].op) < StageRank(StageCalls[b].op)
    /\ \A a \in 1..Len(StageCalls) :
        IF a = 1
        THEN /\ reviewed.kind # "pending"
             /\ StageCalls[a].input =
                    PyIndex(reviewed.versions, best_version_index).content
        ELSE /\ ~StageCalls[a - 1].output.none
             /\ StageCalls[a].input = StageCalls[a - 1].output.v
    /\ \A k, j \in 1..Len(log) :
        (IsStageCall(log[k]) /\ IsSelectionCall(log[j])) => j < k
    /\ (pc \in {"store", "done"} /\ versions # <<>>) =>
        \A st \in StageOps : Count(st, -1) = IF StageEnabled(st) THEN 1 ELSE 0

\* C13 witness: a request with two versions has completed after a review
\* call, a consistency fix and an enrichment, both of which changed the text.
C13_Witness ==
    /\ pc = "done"
    /\ Count("review", -1) = 1
    /\ Len(StageCalls) = 2
    /\ StageCalls[1].op = "consistency"
    /\ StageCalls[1].output = Some(Prose("F"))
    /\ StageCalls[2].op = "enrichment"
    /\ StageCalls[2].input = Prose("F")
    /\ StageCalls[2].output = Some(Prose("E"))

\* generate_chapter would run stage st under the resolved config c.
RunsUnder(c, st) ==
    CASE st = "six_dimension" ->
            /\ c.enable_six_dimension
            /\ (c.enable_constitution \/ c.enable_persona
                    \/ c.enable_foreshadowing \/ c.enable_faction)
      [] st = "self_critique" -> c.enable_self_critique
      [] st = "reader_sim" -> c.enable_reader_sim
      [] st = "consistency" -> c.enable_consistency
      [] st = "optimizer" -> c.enable_optimizer
      [] st = "enrichment" -> c.enable_enrichment

\* C14: each post-processing stage is independently toggleable: for each of
\* the six stages there is a flow_config whose resolved config makes
\* generate_chapter run that stage and no other post-processing stage.
C14_EachStageToggleable ==
    pc = "resolved" =>
        \A st \in StageOps :
            \E fc \in AllFlowConfigs :
                /\ RunsUnder(_resolve_config(fc, sys), st)
                /\ \A other \in StageOps \ {st} : ~RunsUnder(_resolve_config(fc, sys), other)

\* What holds instead of C14 for two of the stages: no flow_config enables
\* the self-critique or the reader simulation.
C14_SelfCritiqueAndReaderSimNeverEnabled ==
    pc # "start" => (~config.enable_self_critique /\ ~config.enable_reader_sim)

\* C15: the request fails for a missing prompt exactly when both "writing_v2"
\* and "writing" are absent, and then no prose-generation call is issued; a
\* missing chapter_plan, rewrite_guardrails or optimize_* prompt only leaves
\* out the LLM call of its stage.
C15_OnlyWritingPromptMandatory ==
    /\ (pc = "failed" /\ error.source = "generate_chapter" /\ error.status = 500) =>
            ("writing_v2" \notin prompts /\ "writing" \notin prompts)
    /\ ("writing_v2" \notin prompts /\ "writing" \notin prompts) =>
            /\ pc \in {"start", "mission", "enhanced", "memory", "rag", "prompt", "failed"}
            /\ \A i \in 0..MaxVersions : Count("generate_llm", i) + Count("preview", i) = 0
    /\ "chapter_plan" \notin prompts => Count("mission_llm", -1) = 0
    /\ "rewrite_guardrails" \notin prompts =>
            \A i \in 0..MaxVersions : Count("rewrite_llm", i) = 0
    /\ \A d \in 1..Len(OptDimensions) :
            OptPrompt(OptDimensions[d]) \notin prompts => Count("optimizer_llm", d) = 0
    /\ (pc = "failed" /\ ("writing_v2" \in prompts \/ "writing" \in prompts)) =>
            (error.source # "generate_chapter" \/ error.status = 404)

\* C15 witness: a request with the optimizer on has completed against a store
\* that holds the "writing" prompt and nothing else.
C15_Witness ==
    /\ pc = "done"
    /\ prompts = {"writing"}
    /\ config.enable_optimizer
    /\ Count("optimizer", -1) = 1
    /\ Count("generate_llm", 0) = 1

\* The chapter_plan call that was issued did not yield a mission.
MissionCallFailed(e) ==
    \/ e.outcome.kind = "raise"
    \/ /\ e.outcome.kind = "ok"
       /\ LET normalized == unwrap_markdown_json(remove_think_tags(e.outcome.response))
          IN ~JsonLoadable(normalized) \/ json_loads(normalized).t # "mission"

\* C16: _generate_chapter_mission issues at most one LLM call; when the
\* chapter_plan prompt is missing (no call at all), the call raises or the
\* response is no JSON object, the mission is None, the request does not fail
\* for it and every guardrail check is given no allowed new character and no
\* pov.
C16_MissionFailureProceedsWithDefaults ==
    /\ Count("mission_llm", -1) <= 1
    /\ "chapter_plan" \notin prompts => Count("mission_llm", -1) = 0
    /\ (/\ pc \notin {"start", "mission"}
        /\ outline_exists
        /\ \/ "chapter_plan" \notin prompts
           \/ \E k \in 1..Len(log) : log[k].op = "mission_llm" /\ MissionCallFailed(log[k]))
        => /\ mission.none
           /\ pc = "enhanced" => error.none
           /\ \A k \in 1..Len(log) :
                log[k].op = "check" => (log[k].pov.none /\ log[k].allowed = <<>>)

\* C16 witness: a request has completed although its chapter_plan call
\* raised, its version checked with no pov.
C16_Witness ==
    /\ pc = "done"
    /\ \E k \in 1..Len(log) : log[k].op = "mission_llm" /\ log[k].outcome.kind = "raise"
    /\ \E k \in 1..Len(log) : log[k].op = "check" /\ log[k].pov.none

\* C17: with enable_preview on, a preview that raises or yields no chapter
\* text does not abort the request: the version comes from the direct
\* generation call.
C17_PreviewFailureFallsBack ==
    /\ pc = "failed" => error.source # "preview_service"
    /\ \A k \in 1..Len(versions) :
        (/\ ~versions[k].metadata.preview.none
         /\ IsEmpty(versions[k].metadata.preview.v.full_chapter))
            => Count("generate_llm", k - 1) = 1

\* What holds of C17: a preview that returns no chapter text is followed by
\* the direct generation call of that version.
C17_EmptyPreviewFallsBack ==
    \A k \in 1..Len(versions) :
        (/\ ~versions[k].metadata.preview.none
         /\ IsEmpty(versions[k].metadata.preview.v.full_chapter))
            => Count("generate_llm", k - 1) = 1

\* C18: with enable_rag on, in either rag_mode, a failure of the vector-store
\* initialization or of the retrieval and filter calls is caught and the
\* request goes on to the prose generation.
C18_RetrievalFailureIsCaught ==
    /\ pc = "failed" => error.source # "chapter_context_service"
    /\ (pc = "prompt" /\ config.enable_rag) => error.none

\* What holds of C18: in the two-stage mode every failure of the vector
\* store, the query call, the search and the filter call leaves the request
\* running, with no context or the placeholder text.
C18_TwoStageFailureIsCaught ==
    (config # NoneV /\ config.enable_rag /\ config.rag_mode = "two_stage"
        /\ Count("vector_store_init", -1) > 0) =>
        /\ pc # "rag"
        /\ pc = "prompt" => error.none
        /\ (Count("filter_llm", -1) = 0) =>
                knowledge_context \in {NoneV, Some("placeholder")}

\* C19: without an outline for the chapter, generate_chapter fails with the
\* 404 error, the chapter record is neither created nor modified and no LLM
\* call has been issued.
C19_MissingOutlineFailsFirst ==
    (~outline_exists /\ pc # "start") =>
        /\ pc = "failed"
        /\ error = HttpError(404)
        /\ chapter \in Chapters
        /\ log = <<Event("get_outline", -1)>>
        /\ stored = <<[content |-> Prose("old"), metadata |-> NoneV]>>

\* C19 witness: a request for a chapter that has no record and no outline
\* has failed with 404, still without a record.
C19_Witness ==
    /\ pc = "failed"
    /\ ~outline_exists
    /\ error.status = 404
    /\ chapter = NoneV

\* A retrieval was run for this request.
RetrievalRan ==
    Count("retrieve_for_generation", -1) + Count("retrieve_and_filter", -1) > 0

\* C20: a stage flagged true in debug_metadata.stages of the response was
\* executed for this request.
C20_StageFlagsTellWhatRan ==
    pc = "done" =>
        LET stages == result.v.debug_metadata.stages
        IN /\ stages.preview => \E i \in 0..MaxVersions : Count("preview", i) > 0
           /\ stages.optimizer =>
                \E d \in 1..Len(OptDimensions) : Count("optimizer_llm", d) > 0
           /\ stages.consistency => Count("consistency", -1) > 0
           /\ stages.enrichment => Count("enrichment", -1) > 0
           /\ stages.six_dimension => Count("six_dimension", -1) > 0
           /\ stages.reader_sim => Count("reader_sim", -1) > 0
           /\ stages.self_critique => Count("self_critique", -1) > 0
           /\ stages.memory => Count("memory", -1) > 0
           /\ stages.rag => RetrievalRan

\* What holds instead of C20: the flags repeat the resolved config.
C20_StageFlagsRepeatConfig ==
    pc = "done" => result.v.debug_metadata.stages = _build_stage_flags(config)

\* A source of the version count holds an integer >= 1.
ValidCount(v) == v.k = "int" /\ v.n >= 1

\* The stored keys and the environment variables in the order of lookup.
CountSources == sys.stored \o sys.env

\* C21: the version count comes from the first source that yields one: a
\* non-zero integer of the request (raised to 1 when negative), else the
\* first stored key or environment variable, in order, that holds an
\* integer >= 1, else the settings default; writer.py resolves the same
\* way from the stored keys on.
C21_FirstValidSourceWins ==
    pc = "resolved" =>
        LET req == flow_config.versions
            usable == req.k = "int" /\ req.n # 0
            first == {i \in 1..Len(CountSources) :
                        /\ ValidCount(CountSources[i])
                        /\ \A j \in 1..(i - 1) : ~ValidCount(CountSources[j])}
            below == IF first = {} THEN sys.settings
                     ELSE CountSources[CHOOSE i \in first : TRUE].n
        IN /\ ValidCount(req) => config.version_count = req.n
           /\ usable => config.version_count = Max(1, req.n)
           /\ ~usable => config.version_count = below
           /\ writer_resolve_version_count(sys) = below

\* C21 witness: the request names no count, the first stored key holds no
\* valid count, the second one does, an environment variable holds another
\* valid count, and the second stored key was taken.
C21_Witness ==
    /\ pc = "resolved"
    /\ flow_config.versions = NoVal
    /\ ~ValidCount(sys.stored[1])
    /\ ValidCount(sys.stored[2])
    /\ ValidCount(sys.env[1])
    /\ sys.env[1] # sys.stored[2]
    /\ config.version_count = sys.stored[2].n

\* C22: the version_count of a resolved config is at least 1.
C22_VersionCountAtLeastOne ==
    pc = "resolved" => config.version_count >= 1

\* What holds of C22: the count is at least 1 whenever the request, a
\* stored key or an environment variable yields it, or the settings
\* default is itself at least 1.
C22_AtLeastOneAboveSettings ==
    (pc = "resolved" /\ config.version_count < 1) =>
        /\ config.version_count = sys.settings
        /\ ~(flow_config.versions.k = "int" /\ flow_config.versions.n # 0)
        /\ \A i \in 1..Len(CountSources) : ~ValidCount(CountSources[i])

\* Priority of a key among those text is extracted from; 0 for another key.
KeyRank(k) ==
    CASE k = "content" -> 1
      [] k = "chapter_content" -> 2
      [] k = "chapter_text" -> 3
      [] k = "text" -> 4
      [] k = "body" -> 5
      [] k = "story" -> 6
      [] OTHER -> 0

RECURSIVE FirstString(_)

\* The first non-empty string of a JSON value: the value itself when it is
\* one; in an object, the one of the best-ranked key whose value has one; in
\* a list, the one of the first item that has one.
FirstString(value) ==
    CASE value.t = "str" -> IF value.s # "" THEN Some(value.s) ELSE NoneV
      [] value.t = "obj" ->
            LET with == {i \in 1..Len(value.pairs) :
                            /\ KeyRank(value.pairs[i].k) > 0
                            /\ ~FirstString(value.pairs[i].v).none}
            IN IF with = {} THEN NoneV
               ELSE FirstString(value.pairs[CHOOSE i \in with : \A j \in with :
                        KeyRank(value.pairs[i].k) <= KeyRank(value.pairs[j].k)].v)
      [] value.t = "list" ->
            LET with == {i \in 1..Len(value.items) : ~FirstString(value.items[i]).none}
            IN IF with = {} THEN NoneV
               ELSE FirstString(value.items[CHOOSE i \in with : \A j \in with : i <= j])
      [] OTHER -> NoneV

\* The versions whose text reached the extraction as the generation call
\* returned it: the check passed, or the repair kept the original.
Unrepaired == {i \in 1..Len(hist) : hist[i].repair \in {"passed", "no_prompt", "raise"}}

\* C23: a version generated from the JSON object {"content": X}, X a
\* non-empty string, has content X, and so has one generated from the plain
\* text X; one generated from any JSON value has as content the first
\* non-empty string under the keys content, chapter_content, chapter_text,
\* text, body, story, in that priority, through objects and lists, and the
\* text as generated when there is none.
C23_ExtractionIsUniform ==
    \A i \in Unrepaired :
        LET generated == hist[i].generated
            content == hist[i].version.content
        IN /\ (generated.body.t = "obj" /\ generated.body.pairs # <<>>
                    /\ generated.body.pairs[1].k = "content"
                    /\ Len(generated.body.pairs) = 1
                    /\ generated.body.pairs[1].v.t = "str"
                    /\ generated.body.pairs[1].v.s # "") =>
                content = Prose(generated.body.pairs[1].v.s)
           /\ generated.body.t = "plain" => content = Prose(generated.body.s)
           /\ generated.body.t # "plain" =>
                content = IF FirstString(generated.body).none THEN generated
                          ELSE Prose(FirstString(generated.body).v)

\* C23 witness: an object that holds "text" before "content", both with a
\* non-empty string, gave the version the string under "content".
C23_Witness ==
    \E i \in Unrepaired :
        LET body == hist[i].generated.body
        IN /\ body.t = "obj"
           /\ Len(body.pairs) = 2
           /\ body.pairs[1].k = "text"
           /\ body.pairs[2].k = "content"
           /\ body.pairs[1].v = JStr("A")
           /\ body.pairs[2].v = JStr("B")
           /\ hist[i].version.content = Prose("B")

\* The two-stage retrieval of the request has run.
Retrieved == pc = "prompt" /\ cur # NoneV

\* The filter calls of the request.
FilterCalls == {k \in 1..Len(log) : log[k].op = "filter_llm"}

\* The text rendered for a FilteredContext is the placeholder.
NothingFiltered(filtered) ==
    /\ filtered.plot_fuel = <<>>
    /\ filtered.character_info = <<>>
    /\ filtered.world_fragments = <<>>
    /\ filtered.narrative_techniques = <<>>
    /\ filtered.warnings = <<>>

\* C24: when the retrieval yields no hit, no filter LLM call is issued, the
\* FilteredContext has its four category lists and its warnings empty, and
\* the context text is the placeholder, not the empty string.
C24_NoHitsGivesPlaceholder ==
    (Retrieved /\ cur.retrieved = <<>>) =>
        /\ FilterCalls = {}
        /\ NothingFiltered(cur.filtered)
        /\ ~knowledge_context.none
        /\ knowledge_context.v # ""
        /\ knowledge_context.v = "placeholder"

\* C24 witness: five queries were issued, every search failed or found
\* nothing, and the context is the placeholder.
C24_Witness ==
    /\ Retrieved
    /\ Len(cur.queries) = QueryLimit
    /\ cur.retrieved = <<>>
    /\ knowledge_context = Some("placeholder")

\* C25: when the filter LLM call raises, returns nothing, or returns text
\* that is no JSON object, the FilteredContext has its four category lists
\* and its warnings empty and the request goes on.
C25_FilterFailsOpen ==
    (Retrieved /\ cur.outcome.filter # "ok") =>
        /\ NothingFiltered(cur.filtered)
        /\ error.none
        /\ knowledge_context = Some("placeholder")
        /\ rag_stats.v.total_filtered = 0

\* C25 witness: hits were found, the filter call was issued and returned
\* JSON that is no object.
C25_Witness ==
    /\ Retrieved
    /\ cur.retrieved # <<>>
    /\ FilterCalls # {}
    /\ cur.outcome.filter = "not_object"
    /\ NothingFiltered(cur.filtered)

\* Positions in raw of the first hit of each content.
FirstOccurrences(raw) ==
    {p \in 1..Len(raw) : \A q \in 1..(p - 1) : raw[q].content # raw[p].content}

C27_FilterReceivesAllHits ==
    Retrieved => \A k \in FilterCalls : log[k].hits = cur.retrieved

\* What holds of C27: the filter call is handed the first ten deduplicated
\* hits, which are all of them only when there are at most ten.
C27_FilterReceivesFirstTen ==
    Retrieved =>
        /\ Cardinality(FilterCalls) <= 1
        /\ \A k \in FilterCalls :
                /\ log[k].hits = SubSeq(cur.retrieved, 1, Min(10, Len(cur.retrieved)))
                /\ Len(cur.retrieved) > 0

\* The history context of the request has been collected.
Collected == pc = "mission" /\ cur # NoneV

\* Positions in cur.chapters of the chapters numbered below the requested
\* one whose selected version has non-empty content.
Completed ==
    {i \in 1..Len(cur.chapters) :
        /\ cur.chapters[i].chapter_number < cur.chapter_number
        /\ cur.chapters[i].content \in {"blank", "text"}}

\* C28: with no completed chapter below the requested one, previous_summary
\* and previous_tail are the placeholder and completed_summaries is empty;
\* otherwise both come from the completed chapter with the highest number,
\* wherever it stands in the list (the placeholder standing for a summary or
\* a tail excerpt of that chapter that is empty).
C28_HistoryFromLatestChapter ==
    Collected =>
        LET h == cur.history_context
        IN IF Completed = {}
           THEN /\ h.previous_summary = HistoryPlaceholder
                /\ h.previous_tail = HistoryPlaceholder
                /\ h.completed_summaries = <<>>
           ELSE LET i == CHOOSE i \in Completed : \A j \in Completed :
                            cur.chapters[j].chapter_number <= cur.chapters[i].chapter_number
                    latest == cur.chapters[i]
                IN /\ h.previous_summary \in {HistoryPlaceholder,
                                               TextOf(latest.chapter_number, "summary")}
                   /\ h.previous_tail \in {HistoryPlaceholder,
                                            TextOf(latest.chapter_number, "tail")}
                   /\ (latest.real_summary \/ latest.get_summary = "ok") =>
                        h.previous_summary = TextOf(latest.chapter_number, "summary")
                   /\ latest.content = "text" =>
                        h.previous_tail = TextOf(latest.chapter_number, "tail")
                   /\ Len(h.completed_summaries) = Cardinality(Completed)

\* C28 witness: two completed chapters below the requested one are iterated
\* with the higher number first, and the previous summary and tail are
\* those of the higher one.
C28_Witness ==
    /\ Collected
    /\ Len(cur.chapters) >= 2
    /\ {1, 2} \subseteq Completed
    /\ cur.chapters[1].chapter_number > cur.chapters[2].chapter_number
    /\ cur.history_context.previous_summary = TextOf(cur.chapters[1].chapter_number, "summary")
    /\ cur.history_context.previous_tail = TextOf(cur.chapters[1].chapter_number, "tail")

\* C28 witness for the first chapter: the project holds chapters, none
\* below the requested one, and both texts are the placeholder.
C28_FirstChapterWitness ==
    /\ Collected
    /\ cur.chapter_number = 1
    /\ Len(cur.chapters) = MaxChapters
    /\ cur.history_context.previous_summary = HistoryPlaceholder
    /\ cur.history_context.previous_tail = HistoryPlaceholder

\* Positions in the log of the events of kind op.
At(op) == {k \in 1..Len(log) : log[k].op = op}

\* Positions of the calls of a retrieval, simple or two-stage.
RetrievalAt == At("retrieve_for_generation") \cup At("retrieve_and_filter")

\* Positions of the calls that generate or repair a version.
GenerationAt == At("preview") \cup At("generate_llm") \cup At("rewrite_llm") \cup At("check")

\* C29: the mission call, the building of the visibility context and the
\* retrieval each happen at most once and in that order, all before the
\* first call that generates a version; the comparative review begins only
\* when version_count versions have been generated and checked, after their
\* last generation, check and repair.
C29_StagesOnceAndInOrder ==
    LET missions == At("mission_llm")
        visibility == At("build_visibility_context")
        retrievals == RetrievalAt
        generations == GenerationAt
    IN /\ Cardinality(missions) <= 1
       /\ Cardinality(visibility) <= 1
       /\ Cardinality(retrievals) <= 1
       /\ \A m \in missions, v \in visibility : m < v
       /\ \A v \in visibility, r \in retrievals : v < r
       /\ \A g \in generations :
               /\ visibility # {}
               /\ \A b \in missions \cup visibility \cup retrievals : b < g
       /\ (config # NoneV /\ (pc = "review" \/ ~(reviewed.kind = "pending"))) =>
               /\ Len(hist) = config.version_count
               /\ \A i \in 0..(config.version_count - 1) :
                       Count("check", i) = 1 /\ Count("preview", i) + Count("generate_llm", i) >= 1
       /\ \A r \in At("review"), g \in generations : g < r

\* C29 witness: a request for two versions went through mission, visibility
\* context and retrieval, repaired a version, and was reviewed.
C29_Witness ==
    /\ pc = "done"
    /\ config.version_count = 2
    /\ At("mission_llm") # {}
    /\ RetrievalAt # {}
    /\ At("rewrite_llm") # {}
    /\ At("review") # {}

ConsistencyCalls == {k \in 1..Len(log) : log[k].op = "consistency" /\ ~log[k].output.none}

\* auto_fix returned a text.
GaveFix(e) == ~e.fix.none /\ ~IsEmpty(e.fix.v)

\* C31: the consistency stage calls auto-fix at most once, and only when a
\* violation is critical or major, and then it does call it; when auto-fix
\* returned a text, that text is the content the stage returns and
\* auto_fix_applied is true; when auto-fix was not called or returned no
\* text, the stage returns the text it was given and auto_fix_applied is
\* false.
C31_AutoFixOnlyForSevereViolations ==
    LET fixes == At("auto_fix") IN
    /\ Cardinality(fixes) <= 1
    /\ \A f \in fixes :
            \E k \in 1..Len(log[f].violations) : log[f].violations[k] \in {"critical", "major"}
    /\ \A c \in ConsistencyCalls :
        LET report == review_summaries.consistency.v IN
        /\ ~review_summaries.consistency.none
        /\ (\E k \in 1..Len(report.violations) : report.violations[k] \in {"critical", "major"})
                => fixes # {}
        /\ \A f \in fixes : f < c /\ log[f].violations = report.violations
        /\ IF \E f \in fixes : GaveFix(log[f])
           THEN /\ \A f \in fixes : log[c].output.v = log[f].fix.v
                /\ report.auto_fix_applied
           ELSE /\ log[c].output.v = log[c].input
                /\ ~report.auto_fix_applied

\* C31 witness: the only violation was major, auto-fix returned a text, and
\* the stored content of the chapter is that text.
C31_Witness ==
    /\ pc = "done"
    /\ \E f \in At("auto_fix") : log[f].violations = <<"major">> /\ log[f].fix = Some(Prose("F"))
    /\ review_summaries.consistency.v.auto_fix_applied
    /\ stored[1].content = Prose("F")

\* C31 witness: auto-fix was called and returned an empty text; the content
\* is unchanged.
C31_NoFixWitness ==
    /\ pc = "done"
    /\ \E f \in At("auto_fix") : log[f].fix = Some(EmptyText)
    /\ ~review_summaries.consistency.v.auto_fix_applied
    /\ stored[1].content = Prose("G")

\* The text _run_optimizer was called with, once it has been called.
OptimizerInput ==
    IF pc = "optimizer" THEN best_content.v
    ELSE log[CHOOSE k \in At("optimizer") : TRUE].input

\* The content the passes before position k of the log left: the output of
\* the last pass that succeeded, the text _run_optimizer was given if none.
ContentBefore(k) ==
    LET done == {j \in At("optimizer_llm") : j < k /\ ~log[j].output.none}
    IN IF done = {} THEN OptimizerInput
       ELSE log[CHOOSE j \in done : \A h \in done : h <= j].output.v

\* The content is an empty text or null.
EmptyOrNull(content) == IsEmpty(content) \/ content.body.t = "null"

\* The optimizer calls the LLM for the dimensions in the order dialogue,
\* environment, psychology, rhythm, once at most for each and never for one
\* whose prompt is missing; each call is given the output of the last pass
\* that succeeded, the original text if none did; _run_optimizer returns
\* that content too and never raises.
C32_OptimizerContinuesFromLastSuccess ==
    /\ \A a, b \in At("optimizer_llm") : a < b => log[a].i < log[b].i
    /\ \A a \in At("optimizer_llm") :
            /\ OptPrompt(OptDimensions[log[a].i]) \in prompts
            /\ log[a].input = ContentBefore(a)
    /\ \A e \in At("optimizer") :
            /\ ~log[e].output.none
            /\ log[e].output.v = ContentBefore(e)
            /\ \A d \in 1..Len(OptDimensions) :
                    OptPrompt(OptDimensions[d]) \in prompts => Count("optimizer_llm", d) = 1
    /\ (pc = "failed") => (error.source # "optimizer" /\ At("optimizer_llm") = {})

\* C32: the optimizer processes the dimensions in order, skips a dimension
\* whose prompt is missing or whose call fails, hands each dimension the
\* output of the last successful one, never raises, and returns a content
\* that is neither empty nor null when the text it was given is not empty.
C32_OptimizerNeverLosesContent ==
    /\ C32_OptimizerContinuesFromLastSuccess
    /\ \A e \in At("optimizer") :
            ~IsEmpty(log[e].input) => ~EmptyOrNull(log[e].output.v)

\* A dimension failed, a later one succeeded on the output of an earlier
\* one, and a prompt was missing.
C32_SkipWitness ==
    /\ pc = "done"
    /\ "optimize_dialogue" \notin prompts
    /\ \E a, b, c \in At("optimizer_llm") :
            /\ a < b /\ b < c
            /\ log[a].output = Some(Prose("O"))
            /\ log[b].output.none
            /\ log[c].input = Prose("O")
            /\ ~log[c].output.none

\* C33: when check_and_enrich returned null, the enrichment stage returns
\* the content it was given, the request does not fail, and review_summaries
\* holds no "enrichment" entry, in the state and in the response.
C33_NullEnrichmentIsNoAction ==
    \A n \in At("check_and_enrich") :
        log[n].result.none =>
            /\ \E e \in At("enrichment") :
                    /\ e = n + 1
                    /\ log[e].output = Some(log[e].input)
            /\ Cardinality(At("enrichment")) = 1
            /\ review_summaries.enrichment.none
            /\ pc \in {"store", "done"}
            /\ error = NoneV
            /\ pc = "done" =>
                    /\ result.v.review_summaries.enrichment.none
                    /\ PyIndex(result.v.variants, best_version_index).content =
                            log[n + 1].input

\* C33 witness: a request whose enrichment service returned null is done;
\* the stored content is the text the stage was given.
C33_Witness ==
    /\ pc = "done"
    /\ \E n \in At("check_and_enrich") :
            /\ log[n].result.none
            /\ PyIndex(stored, best_version_index).content = log[n + 1].input
    /\ result.v.review_summaries.enrichment.none

\* The versions of the legacy route whose text failed the guardrail check.
WriterFailedChecks == {k \in 1..Len(hist) : hist[k].repair = "failed"}

\* The content the legacy route derives from a text that needs no repair.
WriterContentOf(t) == writer_generate_single_version(t, GuardrailPass).content

\* C34: in the legacy route, the stored content of a version that failed
\* the guardrail check is the rewritten text or the generated text,
\* whether or not rewrite_guardrails is configured; it is never null and
\* never a serialisation of the metadata of the version. The route has no
\* rewritten text, so the content is the one derived from the generated
\* text.
C34_LegacyRepairKeepsText ==
    pc = "done" =>
        \A k \in WriterFailedChecks :
            /\ stored[k].content # NullContent
            /\ stored[k].content.body.t # "json_dumps"
            /\ stored[k].content = WriterContentOf(hist[k].generated)

\* In the legacy route, a version that failed the guardrail check is stored
\* with its generated text when rewrite_guardrails is not configured, and
\* with the serialisation of its variant dict, whose content is None, when
\* it is configured.
C34_LegacyRepairDependsOnPrompt ==
    pc = "done" =>
        \A k \in WriterFailedChecks :
            IF "rewrite_guardrails" \in prompts
            THEN /\ versions[k].content = NullContent
                 /\ stored[k].content = JsonDumps(versions[k])
            ELSE stored[k].content = WriterContentOf(hist[k].generated)

\* The chapter record is marked "generating".
MarkedGenerating == chapter # NoneV /\ chapter.status = "generating"

\* C35: once a request of PipelineOrchestrator.generate_chapter has failed,
\* the chapter is not left in status "generating".
C35_FailedRequestLeavesNoGeneratingChapter ==
    pc = "failed" => ~MarkedGenerating

\* A request of PipelineOrchestrator.generate_chapter that fails after the
\* lookup of the outline leaves the chapter marked "generating"; one that
\* fails on the outline leaves the chapter as it was.
C35_FailedRequestStaysGenerating ==
    pc = "failed" => (MarkedGenerating <=> (outline_exists /\ config # NoneV))

\* In the legacy route a version that cannot be generated leaves the
\* chapter marked "failed".
C35_LegacyMarksFailed ==
    pc = "failed" => (chapter.status = "failed" /\ error.status = 500)

\* The variants of the response that the review marked as the best one.
MarkedBest ==
    {k \in 1..Len(result.v.variants) :
        /\ ~result.v.variants[k].metadata.ai_review.none
        /\ result.v.variants[k].metadata.ai_review.v.is_best}

\* The best-version markers of the response agree.
MarkersAgree ==
    /\ MarkedBest = {result.v.best_version_index + 1}
    /\ result.v.review_summaries.ai_review.v.best_version_index = result.v.best_version_index

\* C36: when the response holds a comparative review result, exactly one
\* variant is marked is_best, it is the one at best_version_index of the
\* response, and review_summaries.ai_review.best_version_index is that
\* index too, whatever index the reviewer returned.
C36_BestMarkersAgree ==
    (pc = "done" /\ ~result.v.review_summaries.ai_review.none) => MarkersAgree

\* When the reviewer returned an index inside the range of the versions the
\* markers agree; when it returned one outside, no variant is marked and
\* review_summaries.ai_review.best_version_index is the index returned, not
\* the clamped one of the response.
C36_BestMarkersAgreeInsideRange ==
    (pc = "done" /\ ~result.v.review_summaries.ai_review.none) =>
        IF reviewed.best \in 0..(Len(result.v.variants) - 1)
        THEN MarkersAgree
        ELSE /\ MarkedBest = {}
             /\ result.v.review_summaries.ai_review.v.best_version_index = reviewed.best
             /\ result.v.best_version_index = ClampBest(reviewed.best, Len(result.v.variants))
             /\ result.v.best_version_index # reviewed.best

\* The style hints of the request, as generate_chapter resolves them.
ResolvedHints == _resolve_style_hints(enhanced_context, config.version_count)

\* C37: a successful generate_chapter returns version_count variants, with
\* the indexes 0..version_count-1, in the order of their generation; the
\* content of each is the content stored for its index, the post-processed
\* text for the best one and the text its generation and repair left for
\* the others; a version is generated with the style hint of its index and
\* with none when the hints do not reach its index.
C37_VariantsMatchStoredVersions ==
    pc = "done" =>
        /\ Len(result.v.variants) = config.version_count
        /\ Len(stored) = config.version_count
        /\ Len(hist) = config.version_count
        /\ \A k \in 1..Len(result.v.variants) :
            LET variant == result.v.variants[k] IN
            /\ variant.index = k - 1
            /\ hist[k].version.index = k - 1
            /\ variant.content = stored[k].content
            /\ variant.metadata = stored[k].metadata
            /\ variant.content = IF k - 1 = result.v.best_version_index
                                 THEN best_content.v
                                 ELSE hist[k].version.content
            /\ variant.metadata.style_hint =
                    IF k <= Len(ResolvedHints) THEN Some(ResolvedHints[k]) ELSE NoneV
            /\ \A a \in Positions("check", k - 1), b \in Positions("check", k) : a < b

\* C37 witness: two versions were returned, the second one generated with
\* no style hint because the enhanced context gave a single hint, the best
\* one carrying a post-processed text that differs from the generated one.
C37_Witness ==
    /\ pc = "done"
    /\ Len(result.v.variants) = 2
    /\ Len(ResolvedHints) = 1
    /\ result.v.variants[1].metadata.style_hint = Some("E1")
    /\ result.v.variants[2].metadata.style_hint = NoneV

\* C37 witness: of two returned versions the best one carries a
\* post-processed text that differs from the text its generation left.
C37_PostProcessedWitness ==
    /\ pc = "done"
    /\ Len(result.v.variants) = 2
    /\ \E k \in 1..2 :
            /\ k - 1 = result.v.best_version_index
            /\ result.v.variants[k].content # hist[k].version.content

\* Positions in the log of the writes of real_summary by background tasks.
SummaryWrites == At("write_summary")

\* C38: a background task writes real_summary only with the summary of the
\* text that is the content of the selected version at the moment of the
\* write; a task whose content a later edit has replaced does not write.
C38_SummaryWrittenFromCurrentContent ==
    \A w \in SummaryWrites : log[w].selected = Some(log[w].content)

\* A task writes real_summary only when the content of the selected
\* version it loaded was its own content, and never when the chapter had
\* been edited to another content before the task loaded it.
C38_SummaryWrittenFromLoadedContent ==
    \A w \in SummaryWrites :
        /\ cur.tasks[log[w].i].selected = Some(log[w].content)
        /\ chapter.real_summary # NoneV

\* real_summary holds the summary of a text that is not the content of the
\* selected version, written by a task that a later edit had superseded.
C38_StaleSummaryReached ==
    /\ \A t \in 1..Len(cur.tasks) : cur.tasks[t].at = "raised"
    /\ Len(cur.tasks) = 2
    /\ SelectedContent = Some(Prose("Y"))
    /\ chapter.real_summary = Some(EditSummary(Prose("X"), FALSE))

\* C39: every open foreshadowing has at most one active reminder, a check
\* creates no reminder for a foreshadowing that already has an active one,
\* and every suggested chapter range has start <= end.
C39_RemindersWellFormed ==
    pc = "reminders" =>
        /\ \A f \in 1..Len(cur.foreshadowings) :
            cur.foreshadowings[f].status = "open" =>
                Cardinality(ActiveReminders(cur.reminders, f)) <= 1
        /\ \A c \in At("check_reminders") :
            \A k \in (log[c].before + 1)..log[c].after :
                cur.reminders[k].foreshadowing_id \notin log[c].had_active
        /\ \A k \in 1..Len(cur.reminders) :
            ~cur.reminders[k].suggested_chapter_range.none =>
                cur.reminders[k].suggested_chapter_range.v.start
                    <= cur.reminders[k].suggested_chapter_range.v.end

\* A check creates no reminder for a foreshadowing that had an active
\* reminder when the check began, and none for a resolved foreshadowing.
C39_NoReminderWhenActive ==
    pc = "reminders" =>
        \A c \in At("check_reminders") :
            \A k \in (log[c].before + 1)..log[c].after :
                /\ cur.reminders[k].foreshadowing_id \notin log[c].had_active
                /\ cur.foreshadowings[cur.reminders[k].foreshadowing_id].status = "open"

\* One check has given an open foreshadowing two active reminders.
C39_TwoActiveReached ==
    /\ pc = "reminders"
    /\ idx = 1
    /\ \E f \in 1..Len(cur.foreshadowings) :
        Cardinality(ActiveReminders(cur.reminders, f)) = 2

\* A check has written a suggested range that ends before it starts.
C39_EmptyRangeReached ==
    /\ pc = "reminders"
    /\ \E k \in 1..Len(cur.reminders) :
        /\ ~cur.reminders[k].suggested_chapter_range.none
        /\ cur.reminders[k].suggested_chapter_range.v.start
               > cur.reminders[k].suggested_chapter_range.v.end

\* Positions in the log of a check that reports chapters to analyse with the
\* cache at hand, followed by the analysis of exactly the chapters it
\* reported, the cache being written, and by a second check.
CheckAnalyseCheck ==
    {k \in 1..(Len(log) - 2) :
        /\ log[k].op = "check_if_needs_update" /\ log[k].available /\ log[k].needs
        /\ log[k + 1].op = "analyze_emotion_async" /\ log[k + 1].available
        /\ log[k + 1].chapter_ids = Some(log[k].changed)
        /\ log[k + 2].op = "check_if_needs_update" /\ log[k + 2].available}

\* The chapters that have content.
WithContent == {c \in IdsOf(EmotionChapters) : cur.contents[c] # ""}

\* The chapters the cached emotion curve holds a point for.
CurvePoints == {cur.curve.v[k].chapter_id : k \in 1..Len(cur.curve.v)}

\* C40: when a check has reported changed chapters, the analysis has been
\* run for exactly those chapters and no content has changed since, the
\* next check returns (False, []) and the cached curve holds a point for
\* every chapter with content.
C40_EmotionCacheCoherent ==
    (pc = "emotion" /\ Len(log) - 2 \in CheckAnalyseCheck) =>
        /\ ~log[Len(log)].needs
        /\ log[Len(log)].changed = <<>>
        /\ WithContent \subseteq CurvePoints

\* After an analysis of all chapters that wrote the cache, and with no
\* content changed since, the next check returns (False, []) and the
\* cached curve holds a point for every chapter with content.
C40_FullAnalysisCoherent ==
    (/\ pc = "emotion"
     /\ Len(log) >= 2
     /\ log[Len(log)].op = "check_if_needs_update" /\ log[Len(log)].available
     /\ log[Len(log) - 1].op = "analyze_emotion_async" /\ log[Len(log) - 1].available
     /\ \/ log[Len(log) - 1].chapter_ids.none
        \/ log[Len(log) - 1].chapter_ids.v = <<>>) =>
        /\ ~log[Len(log)].needs
        /\ log[Len(log)].changed = <<>>
        /\ WithContent \subseteq CurvePoints

\* After the analysis of the one chapter a check reported, the next check
\* reports the other chapters and the curve holds the one chapter only.
C40_PartialCurveReached ==
    /\ pc = "emotion"
    /\ Len(log) - 2 \in CheckAnalyseCheck
    /\ Len(log[Len(log) - 2].changed) = 1
    /\ log[Len(log)].needs
    /\ Cardinality(WithContent) = 2
    /\ Cardinality(CurvePoints) = 1

====
